---- MODULE Spec2Model ----
(***************************************************************************)
(* Lab report ingestion and clinical insight engine of nutrinexus:         *)
(*   src/src/services/labs_parser.py          parse_ref, classify_value,   *)
(*                                            _extract_row_from_line       *)
(*   src/src/services/clinical_intelligence.py norm_key, lab_insights,     *)
(*                                            measurement_alerts           *)
(*                                                                         *)
(* Representation.                                                         *)
(*  - A Python str is a TLA+ string; its i-th character is SubSeq(s,i,i).  *)
(*    Characters outside ASCII are written with the stand-ins listed at    *)
(*    TurkishLetters below.                                                *)
(*  - A Python float is an integer counting units of 1/Scale (fixed point, *)
(*    exact on every decimal with at most FracDigits fractional digits).   *)
(*    Products with a ratio are compared by cross-multiplication, so the   *)
(*    comparisons of the code are decided exactly.                         *)
(*  - Optional[x] is <<>> for None and <<x>> for a present x.              *)
(*  - A raised exception is the result Raise.                              *)
(***************************************************************************)
EXTENDS Integers, Sequences, FiniteSets, TLC

VARIABLES
    call,   \* the entry point this run exercises
    arg,    \* its argument(s), drawn in the initial state
    ret,    \* what it returned (meaningful once pc = "done")
    pc,     \* "start" before the call, "done" after it
    meta,   \* the stored clinical thresholds (app_meta), None when nothing is stored
    engine  \* the constructed ClinicalIntelligence (its th), None before construction

vars == <<call, arg, ret, pc, meta, engine>>

-----------------------------------------------------------------------------
(* Bounds of the model *)

FracDigits == 2          \* fractional decimal digits a number can carry

-----------------------------------------------------------------------------
(* Values *)

None == <<>>
Some(x) == <<x>>
IsNone(o) == o = <<>>
Val(o) == o[1]

\* Neither None nor Some(x): what a call that raised leaves behind.
Raise == <<"raise", "exception">>
Pending == [pending |-> TRUE]

RECURSIVE Pow10(_)
Pow10(n) == IF n = 0 THEN 1 ELSE 10 * Pow10(n - 1)

Scale == Pow10(FracDigits)

\* The decimal i.t (t tenths) and the decimal i.hh (h hundredths), in units of 1/Scale.
Tenths(i, t) == i * Scale + t * (Scale \div 10)
Hundredths(i, h) == i * Scale + h * (Scale \div 100)
Whole(i) == i * Scale

Abs(x) == IF x < 0 THEN -x ELSE x

-----------------------------------------------------------------------------
(* Characters and strings *)

Ch(s, i) == SubSeq(s, i, i)

Digits == {"0", "1", "2", "3", "4", "5", "6", "7", "8", "9"}

DigitVal(c) ==
    CASE c = "0" -> 0 [] c = "1" -> 1 [] c = "2" -> 2 [] c = "3" -> 3
      [] c = "4" -> 4 [] c = "5" -> 5 [] c = "6" -> 6 [] c = "7" -> 7
      [] c = "8" -> 8 [] c = "9" -> 9

DigitChar(d) ==
    CASE d = 0 -> "0" [] d = 1 -> "1" [] d = 2 -> "2" [] d = 3 -> "3"
      [] d = 4 -> "4" [] d = 5 -> "5" [] d = 6 -> "6" [] d = 7 -> "7"
      [] d = 8 -> "8" [] d = 9 -> "9"

\* \s of the re module, on the whitespace characters the model's inputs use.
Whitespace == {" ", "\t"}

\* str.strip()
RECURSIVE lstrip(_)
lstrip(s) ==
    IF Len(s) > 0 /\ Ch(s, 1) \in Whitespace THEN lstrip(Tail(s)) ELSE s

RECURSIVE rstrip(_)
rstrip(s) ==
    IF Len(s) > 0 /\ Ch(s, Len(s)) \in Whitespace
    THEN rstrip(SubSeq(s, 1, Len(s) - 1))
    ELSE s

strip(s) == rstrip(lstrip(s))

\* The index after the longest run of digits that starts at i (i when there is none).
RECURSIVE DigitsEnd(_, _)
DigitsEnd(s, i) ==
    IF i <= Len(s) /\ Ch(s, i) \in Digits THEN DigitsEnd(s, i + 1) ELSE i

\* The index after the longest run of whitespace that starts at i: \s*
RECURSIVE SpacesEnd(_, _)
SpacesEnd(s, i) ==
    IF i <= Len(s) /\ Ch(s, i) \in Whitespace THEN SpacesEnd(s, i + 1) ELSE i

\* [sign]?\d+(?:[.,]\d+)? matched greedily at i: the index after the match, 0
\* when there is none.  In each pattern below a shorter match of this group is
\* followed by a digit or by [.,], which no continuation of the pattern
\* accepts, so the greedy match is the one the regex engine settles on.
NumEnd(s, i, signs) ==
    LET j0 == IF i <= Len(s) /\ Ch(s, i) \in signs THEN i + 1 ELSE i
        j1 == DigitsEnd(s, j0)
    IN  IF j1 = j0 THEN 0
        ELSE IF j1 <= Len(s) /\ Ch(s, j1) \in {".", ","} /\ DigitsEnd(s, j1 + 1) > j1 + 1
             THEN DigitsEnd(s, j1 + 1)
             ELSE j1

\* The value of a string of digits.
RECURSIVE DigitsVal(_)
DigitsVal(s) ==
    IF Len(s) = 0 THEN 0
    ELSE 10 * DigitsVal(SubSeq(s, 1, Len(s) - 1)) + DigitVal(Ch(s, Len(s)))

\* The first FracDigits digits of a fractional part, in units of 1/Scale.
FracVal(s) ==
    LET n == IF Len(s) > FracDigits THEN FracDigits ELSE Len(s)
    IN  DigitsVal(SubSeq(s, 1, n)) * Pow10(FracDigits - n)

\* float(t) for t of the shape [+-]?\d+(\.\d+)?; None (a ValueError) otherwise.
float(t) ==
    LET neg == Len(t) > 0 /\ Ch(t, 1) = "-"
        j0 == IF Len(t) > 0 /\ Ch(t, 1) \in {"-", "+"} THEN 2 ELSE 1
        j1 == DigitsEnd(t, j0)
        whole == DigitsVal(SubSeq(t, j0, j1 - 1))
        hasFrac == j1 <= Len(t) /\ Ch(t, j1) = "."
        j2 == IF hasFrac THEN DigitsEnd(t, j1 + 1) ELSE j1
        frac == IF hasFrac THEN FracVal(SubSeq(t, j1 + 1, j2 - 1)) ELSE 0
        v == whole * Scale + frac
    IN  IF j1 = j0 \/ j2 # Len(t) + 1 \/ (hasFrac /\ j2 = j1 + 1)
        THEN None
        ELSE Some(IF neg THEN -v ELSE v)

\* s.replace(',', '.')
RECURSIVE replace_comma(_)
replace_comma(s) ==
    IF Len(s) = 0 THEN ""
    ELSE (IF Ch(s, 1) = "," THEN "." ELSE Ch(s, 1)) \o replace_comma(Tail(s))

\* A bug _to_float could have: the decimal comma is not translated.
to_float_no_comma(s) == float(s)

_to_float(s) == float(replace_comma(s))

-----------------------------------------------------------------------------
(* Reference patterns.  A match is [start, end, ...groups]; end is the index *)
(* after the match.  NoMatch stands for None.                                *)

NoMatch == [start |-> 0, end |-> 0]
IsMatch(m) == m.start > 0

\* _RE_RANGE = (?P<low>-?\d+(?:[.,]\d+)?)\s*-\s*(?P<high>-?\d+(?:[.,]\d+)?), anchored at i
_RE_RANGE_at(s, i) ==
    LET e1 == NumEnd(s, i, {"-"})
        d  == SpacesEnd(s, e1)
        k  == SpacesEnd(s, d + 1)
        e2 == NumEnd(s, k, {"-"})
    IN  IF e1 = 0 THEN NoMatch
        ELSE IF ~(d <= Len(s) /\ Ch(s, d) = "-") THEN NoMatch
        ELSE IF e2 = 0 THEN NoMatch
        ELSE [start |-> i, end |-> e2,
              low |-> SubSeq(s, i, e1 - 1), high |-> SubSeq(s, k, e2 - 1)]

\* _RE_LT = <\s*(?P<lim>-?\d+(?:[.,]\d+)?) and _RE_GT = >\s*(?P<lim>...), anchored at i
_RE_SIGN_at(s, i, sign) ==
    LET k == SpacesEnd(s, i + 1)
        e == NumEnd(s, k, {"-"})
    IN  IF ~(i <= Len(s) /\ Ch(s, i) = sign) THEN NoMatch
        ELSE IF e = 0 THEN NoMatch
        ELSE [start |-> i, end |-> e, lim |-> SubSeq(s, k, e - 1)]

_RE_LT_at(s, i) == _RE_SIGN_at(s, i, "<")
_RE_GT_at(s, i) == _RE_SIGN_at(s, i, ">")

\* rx is "range", "lt" or "gt"
RxAt(rx, s, i) ==
    CASE rx = "range" -> _RE_RANGE_at(s, i)
      [] rx = "lt"    -> _RE_LT_at(s, i)
      [] rx = "gt"    -> _RE_GT_at(s, i)

\* rx.search(s) from position i on: the leftmost match.
RECURSIVE RxSearch(_, _, _)
RxSearch(rx, s, i) ==
    IF i > Len(s) THEN NoMatch
    ELSE IF IsMatch(RxAt(rx, s, i)) THEN RxAt(rx, s, i)
    ELSE RxSearch(rx, s, i + 1)

-----------------------------------------------------------------------------
(* RefRange and parse_ref *)

RefRange(mode, low, high, text) ==
    [mode |-> mode, low |-> low, high |-> high, text |-> text]

\* A bug parse_ref could have: '>NUM' tried before '<NUM'.
parse_ref_gt_first(ref_text) ==
    LET t  == strip(IF IsNone(ref_text) THEN "" ELSE Val(ref_text))
        mr == RxSearch("range", t, 1)
        ml == RxSearch("lt", t, 1)
        mg == RxSearch("gt", t, 1)
    IN  IF IsMatch(mr)
        THEN RefRange("range", _to_float(mr.low), _to_float(mr.high), t)
        ELSE IF IsMatch(mg)
        THEN RefRange("gt", _to_float(mg.lim), None, t)
        ELSE IF IsMatch(ml)
        THEN RefRange("lt", None, _to_float(ml.lim), t)
        ELSE RefRange("unknown", None, None, t)

\* ref_text is Optional[str]
parse_ref(ref_text) ==
    LET t  == strip(IF IsNone(ref_text) THEN "" ELSE Val(ref_text))
        mr == RxSearch("range", t, 1)
        ml == RxSearch("lt", t, 1)
        mg == RxSearch("gt", t, 1)
    IN  IF IsMatch(mr)
        THEN RefRange("range", _to_float(mr.low), _to_float(mr.high), t)
        ELSE IF IsMatch(ml)
        THEN RefRange("lt", None, _to_float(ml.lim), t)
        ELSE IF IsMatch(mg)
        THEN RefRange("gt", _to_float(mg.lim), None, t)
        ELSE RefRange("unknown", None, None, t)

-----------------------------------------------------------------------------
(* classify_value.  A ratio is the rational n/d with d > 0; the comparisons *)
(* of the code are multiplied out by d.                                     *)

Ratio(n, d) == [n |-> n, d |-> d]
DefaultRatio == Ratio(5, 100)          \* borderline_ratio: float = 0.05

\* 0.000001 is 1/EpsDen units of 1/Scale
EpsDen == Pow10(6 - FracDigits)

\* value <= low + span * ratio  with  span = max(high - low, 0.000001)
InLowerBand(v, lo, hi, r) ==
    IF hi - lo >= 1
    THEN (v - lo) * r.d <= (hi - lo) * r.n
    ELSE (v - lo) * r.d * EpsDen <= r.n

\* value >= high - span * ratio
InUpperBand(v, lo, hi, r) ==
    IF hi - lo >= 1
    THEN (hi - v) * r.d <= (hi - lo) * r.n
    ELSE (hi - v) * r.d * EpsDen <= r.n

\* A bug classify_value could have: the band at the lower edge is forgotten.
classify_value_upper_band_only(value, ref, r) ==
    IF IsNone(value) THEN "unknown"
    ELSE IF ref.mode = "range" /\ ~IsNone(ref.low) /\ ~IsNone(ref.high) THEN
        IF Val(value) < Val(ref.low) THEN "low"
        ELSE IF Val(value) > Val(ref.high) THEN "high"
        ELSE IF InUpperBand(Val(value), Val(ref.low), Val(ref.high), r) THEN "borderline"
        ELSE "normal"
    ELSE "unknown"

\* A bug classify_value could have: the bounds are compared without the
\* "is not None" tests, and comparing a float with None is a TypeError.
classify_value_unguarded(value, ref, r) ==
    IF IsNone(value) THEN "unknown"
    ELSE IF ref.mode = "range" THEN
        IF IsNone(ref.low) \/ IsNone(ref.high) THEN "TypeError"
        ELSE IF Val(value) < Val(ref.low) THEN "low"
        ELSE IF Val(value) > Val(ref.high) THEN "high"
        ELSE IF \/ InLowerBand(Val(value), Val(ref.low), Val(ref.high), r)
                \/ InUpperBand(Val(value), Val(ref.low), Val(ref.high), r)
             THEN "borderline"
        ELSE "normal"
    ELSE IF ref.mode = "lt" THEN
        IF IsNone(ref.high) THEN "TypeError"
        ELSE IF Val(value) > Val(ref.high) THEN "high"
        ELSE IF Val(value) * r.d >= Val(ref.high) * (r.d - r.n) THEN "borderline"
        ELSE "normal"
    ELSE IF ref.mode = "gt" THEN
        IF IsNone(ref.low) THEN "TypeError"
        ELSE IF Val(value) < Val(ref.low) THEN "low"
        ELSE IF Val(value) * r.d <= Val(ref.low) * (r.d + r.n) THEN "borderline"
        ELSE "normal"
    ELSE "unknown"

classify_value(value, ref, r) ==
    IF IsNone(value) THEN "unknown"
    ELSE IF ref.mode = "range" /\ ~IsNone(ref.low) /\ ~IsNone(ref.high) THEN
        IF Val(value) < Val(ref.low) THEN "low"
        ELSE IF Val(value) > Val(ref.high) THEN "high"
        ELSE IF \/ InLowerBand(Val(value), Val(ref.low), Val(ref.high), r)
                \/ InUpperBand(Val(value), Val(ref.low), Val(ref.high), r)
             THEN "borderline"
        ELSE "normal"
    ELSE IF ref.mode = "lt" /\ ~IsNone(ref.high) THEN
        IF Val(value) > Val(ref.high) THEN "high"
        \* value >= high * (1 - ratio)
        ELSE IF Val(value) * r.d >= Val(ref.high) * (r.d - r.n) THEN "borderline"
        ELSE "normal"
    ELSE IF ref.mode = "gt" /\ ~IsNone(ref.low) THEN
        IF Val(value) < Val(ref.low) THEN "low"
        \* value <= low * (1 + ratio)
        ELSE IF Val(value) * r.d <= Val(ref.low) * (r.d + r.n) THEN "borderline"
        ELSE "normal"
    ELSE "unknown"

-----------------------------------------------------------------------------
(* Formatting of numbers, used to build the inputs *)

RECURSIVE NatStr(_)
NatStr(n) == IF n < 10 THEN DigitChar(n) ELSE NatStr(n \div 10) \o DigitChar(n % 10)

\* f < Scale written with FracDigits digits
RECURSIVE PadStr(_, _)
PadStr(f, width) ==
    IF width = 0 THEN "" ELSE PadStr(f \div 10, width - 1) \o DigitChar(f % 10)

\* "{x}" for the number x: as an integer when style is "int" and x is whole,
\* as a decimal with the separator sep otherwise.
Fmt(x, style, sep) ==
    LET a == Abs(x)
        sign == IF x < 0 THEN "-" ELSE ""
    IN  IF style = "int" /\ a % Scale = 0
        THEN sign \o NatStr(a \div Scale)
        ELSE sign \o NatStr(a \div Scale) \o sep \o PadStr(a % Scale, FracDigits)

-----------------------------------------------------------------------------
(* parse_ref: inputs *)

RefNumbers == {Whole(-5), Whole(0), Tenths(1, 5), Whole(5), Whole(10), Hundredths(70, 25)}

\* "{a} - {b}"
RefRangeArgs ==
    { [kind |-> "fmt_range", a |-> a, b |-> b,
       text |-> Some(Fmt(a, st, sep) \o " - " \o Fmt(b, st, sep))] :
        a \in RefNumbers, b \in RefNumbers, st \in {"int", "dec"}, sep \in {".", ","} }

RefSignArgs ==
    { [kind |-> "fmt_sign", a |-> n, b |-> n,
       text |-> Some(sg \o gap \o Fmt(n, "int", "."))] :
        n \in RefNumbers, sg \in {"<", ">"}, gap \in {"", " "} }

RefOtherTexts ==
    { None, Some(""), Some("  "), Some("Negatif"), Some("2024-01-15"), Some("12.3.4 - 5"),
      Some("5-10"), Some(" 0 -\t5 "), Some("1. - 2"), Some("<"), Some("> x"),
      Some(">40 <60"), Some("<5 0 - 5"), Some("3 -"), Some("- 3"),
      Some(" Negatif "), Some("\t<5 "), Some("<1 >2"), Some(">7 1-2 <3") }

RefOtherArgs == { [kind |-> "text", a |-> 0, b |-> 0, text |-> t] : t \in RefOtherTexts }

RefArgs == RefRangeArgs \cup RefSignArgs \cup RefOtherArgs

InitRef ==
    /\ call = "parse_ref"
    /\ arg \in RefArgs
    /\ ret = Pending
    /\ pc = "start"
    /\ meta = None
    /\ engine = None

ParseRef ==
    /\ call = "parse_ref"
    /\ pc = "start"
    /\ ret' = parse_ref(arg.text)
    /\ pc' = "done"
    /\ UNCHANGED <<call, arg, meta, engine>>

NextRef == ParseRef

SpecRef == InitRef /\ [][NextRef]_vars

\* C2 -- Range round-trip: a reference text "{a} - {b}" with a <= b, written
\* with integers or decimals and '.' or ',' as the decimal separator, parses
\* to mode range with low = a and high = b.
RangeRoundTrip ==
    (call = "parse_ref" /\ pc = "done" /\ arg.kind = "fmt_range" /\ arg.a <= arg.b)
        => /\ ret.mode = "range"
           /\ ret.low = Some(arg.a)
           /\ ret.high = Some(arg.b)

\* A decimal-comma range with a negative low bound has been parsed.
RangeRoundTripWitness ==
    /\ call = "parse_ref" /\ pc = "done" /\ arg.kind = "fmt_range"
    /\ arg.a = Whole(-5) /\ arg.b = Hundredths(70, 25)
    /\ arg.text = Some(Fmt(Whole(-5), "dec", ",") \o " - " \o Fmt(Hundredths(70, 25), "dec", ","))
    /\ ret.low = Some(Whole(-5)) /\ ret.high = Some(Hundredths(70, 25))

\* C10 -- RefRange invariant: whatever the input, a returned RefRange of mode
\* range has both bounds and low <= high, mode lt has high, mode gt has low,
\* and mode unknown has no bounds.
RefRangeInvariant ==
    (call = "parse_ref" /\ pc = "done")
        => /\ ret.mode = "range" =>
                /\ ~IsNone(ret.low) /\ ~IsNone(ret.high)
                /\ Val(ret.low) <= Val(ret.high)
           /\ ret.mode = "lt" => ~IsNone(ret.high)
           /\ ret.mode = "gt" => ~IsNone(ret.low)
           /\ ret.mode = "unknown" => (IsNone(ret.low) /\ IsNone(ret.high))

-----------------------------------------------------------------------------
(* C11 -- parse_ref is total and ordered: for every input (empty and None    *)
(* included) it returns one RefRange without raising; the two-number range   *)
(* pattern is tried first, then '<NUM', then '>NUM', and the first of these  *)
(* that matches anywhere in the text gives the mode; when none matches the   *)
(* mode is unknown.  ParseRefTotalOrdered states it with the unknown result  *)
(* carrying the raw input text unchanged; ParseRefTotalOrderedStripped with  *)
(* the unknown result carrying the input text stripped of leading and        *)
(* trailing whitespace.                                                      *)
RawText(a) == IF IsNone(a.text) THEN "" ELSE Val(a.text)

HasShape(rx, s) == \E i \in 1..Len(s) : IsMatch(RxAt(rx, s, i))

FirstShape(s) ==
    IF HasShape("range", s) THEN "range"
    ELSE IF HasShape("lt", s) THEN "lt"
    ELSE IF HasShape("gt", s) THEN "gt"
    ELSE "unknown"

IsRefRange(r) ==
    /\ DOMAIN r = {"mode", "low", "high", "text"}
    /\ r.mode \in {"range", "lt", "gt", "unknown"}

ParseRefTotalOrdered ==
    (call = "parse_ref" /\ pc = "done")
        => /\ IsRefRange(ret)
           /\ ret.mode = FirstShape(RawText(arg))
           /\ ret.mode = "unknown" => ret.text = RawText(arg)

ParseRefTotalOrderedStripped ==
    (call = "parse_ref" /\ pc = "done")
        => /\ IsRefRange(ret)
           /\ ret.mode = FirstShape(RawText(arg))
           /\ ret.mode = "unknown" => ret.text = strip(RawText(arg))

\* a text where '>NUM' comes first in the line and '<NUM' after it: '<' wins
ParseRefTotalOrderedWitness ==
    /\ call = "parse_ref" /\ pc = "done"
    /\ arg.text = Some(">40 <60")
    /\ ret.mode = "lt" /\ ret.high = Some(Whole(60))

(* classify_value: inputs.  One call on any value, RefRange and ratio; and a *)
(* sweep of calls over increasing values against one fixed range.            *)

Statuses == {"low", "high", "borderline", "normal", "unknown"}

ClassifyNumbers ==
    { Whole(-11), -Tenths(10, 2), Whole(-10), -Tenths(9, 8), -Tenths(9, 5), Whole(0),
      Tenths(4, 7), Hundredths(4, 75), Tenths(4, 9), Whole(5), Tenths(5, 1),
      Tenths(5, 25), Whole(40), Whole(42), Tenths(42, 1) }

ClassifyValues == {None} \cup { Some(v) : v \in ClassifyNumbers }

ClassifyBounds == { None, Some(Whole(-10)), Some(Whole(0)), Some(Whole(5)), Some(Whole(40)) }

ClassifyRefs ==
    { RefRange(m, lo, hi, "") :
        m \in {"range", "lt", "gt", "unknown"}, lo \in ClassifyBounds, hi \in ClassifyBounds }

ClassifyRatios == { Ratio(-5, 100), Ratio(0, 100), Ratio(5, 100), Ratio(1, 4), Ratio(150, 100) }

ClassifyArgs ==
    { [value |-> v, ref |-> rf, ratio |-> r] :
        v \in ClassifyValues, rf \in ClassifyRefs, r \in ClassifyRatios }

SweepSteps == 20      \* points the sweep places between low and high
SweepMargin == 2      \* points it places beyond each edge

SweepLen == SweepSteps + 2 * SweepMargin + 1

\* The k-th value of the sweep over [lo, hi]; nondecreasing in k.
SweepValue(lo, hi, k) == lo + ((k - SweepMargin - 1) * (hi - lo)) \div SweepSteps

SweepRanges ==
    { <<Whole(0), Whole(5)>>, <<Whole(70), Whole(100)>>, <<Whole(-10), Whole(-5)>>,
      <<Tenths(1, 5), Tenths(2, 5)>> }

\* ratios in (0, 0.5)
SweepRatios == { Ratio(1, 100), Ratio(5, 100), Ratio(1, 4), Ratio(49, 100) }

SweepArgs ==
    { [value |-> None, ref |-> RefRange("range", Some(rg[1]), Some(rg[2]), ""), ratio |-> r] :
        rg \in SweepRanges, r \in SweepRatios }

InitClassify ==
    /\ \/ /\ call = "classify_value"
          /\ arg \in ClassifyArgs
          /\ ret = "pending"
          /\ pc = "start"
       \/ /\ call = "classify_sweep"
          /\ arg \in SweepArgs
          /\ ret = <<>>
          /\ pc = "start"
    /\ meta = None
    /\ engine = None

Classify ==
    /\ call = "classify_value"
    /\ pc = "start"
    /\ ret' = classify_value(arg.value, arg.ref, arg.ratio)
    /\ pc' = "done"
    /\ UNCHANGED <<call, arg, meta, engine>>

\* The next call of the sweep, on the next larger value.
ClassifyNext ==
    /\ call = "classify_sweep"
    /\ pc = "start"
    /\ LET k == Len(ret) + 1
           v == SweepValue(Val(arg.ref.low), Val(arg.ref.high), k)
       IN  /\ ret' = Append(ret, classify_value(Some(v), arg.ref, arg.ratio))
           /\ pc' = IF k = SweepLen THEN "done" ELSE "start"
    /\ UNCHANGED <<call, arg, meta, engine>>

NextClassify == Classify \/ ClassifyNext

SpecClassify == InitClassify /\ [][NextClassify]_vars

\* C3 -- Classifier totality: for every value (absent or a number), every
\* RefRange (any mode, bounds present or absent) and every ratio the result is
\* one of the five statuses and no exception is raised; it is unknown when the
\* value is absent and when the mode is unknown.
ClassifierTotal ==
    (call = "classify_value" /\ pc = "done")
        => /\ ret \in Statuses
           /\ IsNone(arg.value) => ret = "unknown"
           /\ arg.ref.mode = "unknown" => ret = "unknown"

\* A number has been classified against a range whose low bound is missing.
ClassifierTotalWitness ==
    /\ call = "classify_value" /\ pc = "done"
    /\ arg.value = Some(Whole(5))
    /\ arg.ref.mode = "range" /\ IsNone(arg.ref.low) /\ arg.ref.high = Some(Whole(40))
    /\ ret = "unknown"

\* The statuses of a sweep read in order: the stage reached (0 low, 1 lower
\* borderline, 2 normal, 3 upper borderline, 4 high), or -1 once a status
\* appears that Low -> Borderline -> Normal -> Borderline -> High does not allow.
RECURSIVE StageAfter(_, _)
StageAfter(seq, n) ==
    IF n = 0 THEN 0
    ELSE LET p == StageAfter(seq, n - 1)
             x == seq[n]
         IN  IF p = -1 THEN -1
             ELSE CASE x = "low"        -> IF p = 0 THEN 0 ELSE -1
                    [] x = "borderline" -> IF p <= 1 THEN 1 ELSE IF p <= 3 THEN 3 ELSE -1
                    [] x = "normal"     -> IF p <= 2 THEN 2 ELSE -1
                    [] x = "high"       -> 4
                    [] OTHER            -> -1

\* Below low: Low; above high: High; within span*ratio of an edge: Borderline;
\* the rest: Normal.
BandStatus(v, lo, hi, r) ==
    IF v < lo THEN "low"
    ELSE IF v > hi THEN "high"
    ELSE IF (v - lo) * r.d <= (hi - lo) * r.n \/ (hi - v) * r.d <= (hi - lo) * r.n
         THEN "borderline"
    ELSE "normal"

\* C4 -- Borderline monotonicity: against a fixed Range(low, high) with
\* low < high and a ratio in (0, 0.5), the statuses of increasing values run
\* Low -> Borderline -> Normal -> Borderline -> High with no other transition,
\* and each is Low below low, High above high, Borderline within span*ratio of
\* an edge and Normal elsewhere.
BorderlineMonotone ==
    call = "classify_sweep"
        => /\ StageAfter(ret, Len(ret)) # -1
           /\ \A k \in 1..Len(ret) :
                ret[k] = BandStatus(SweepValue(Val(arg.ref.low), Val(arg.ref.high), k),
                                    Val(arg.ref.low), Val(arg.ref.high), arg.ratio)

\* A finished sweep that went through all five stages.
BorderlineMonotoneWitness ==
    /\ call = "classify_sweep" /\ pc = "done"
    /\ ret[1] = "low" /\ ret[Len(ret)] = "high"
    /\ \E i, j, k \in 1..Len(ret) :
        i < j /\ j < k /\ ret[i] = "borderline" /\ ret[j] = "normal" /\ ret[k] = "borderline"

\* C5 -- One-sided references: for every limit (positive, zero or negative),
\* value and ratio, LessThan(high) gives High above high, Borderline at most
\* high and within the ratio band below high, Normal otherwise; GreaterThan(low)
\* gives Low below low, Borderline at least low and within the ratio band above
\* low, Normal otherwise.  The band of a limit x is |x| * ratio wide.
OneSidedBands ==
    (call = "classify_value" /\ pc = "done" /\ ~IsNone(arg.value))
        => LET v == Val(arg.value)
               r == arg.ratio
           IN  /\ (arg.ref.mode = "lt" /\ ~IsNone(arg.ref.high)) =>
                    LET hi == Val(arg.ref.high)
                    IN  ret = IF v > hi THEN "high"
                              ELSE IF (hi - v) * r.d <= Abs(hi) * r.n THEN "borderline"
                              ELSE "normal"
               /\ (arg.ref.mode = "gt" /\ ~IsNone(arg.ref.low)) =>
                    LET lo == Val(arg.ref.low)
                    IN  ret = IF v < lo THEN "low"
                              ELSE IF (v - lo) * r.d <= Abs(lo) * r.n THEN "borderline"
                              ELSE "normal"

-----------------------------------------------------------------------------
(* norm_key.  TurkishLetters: the characters outside ASCII are written with  *)
(* these stand-ins, none of which is a letter, a digit or whitespace:        *)
(*    {  dotless i  U+0131        }  capital I with dot  U+0130              *)
(*    $  s cedilla                %  capital S cedilla                       *)
(*    &  g breve                  #  capital G breve                         *)
(*    ~  u diaeresis              ^  capital U diaeresis                     *)
(*    ;  o diaeresis              :  capital O diaeresis                     *)
(*    ?  c cedilla                !  capital C cedilla                       *)
(*    @  combining dot above  U+0307                                         *)

DotlessI == "{"
CapitalDotI == "}"
CombiningDot == "@"

UpperAZ == "ABCDEFGHIJKLMNOPQRSTUVWXYZ"
LowerAZ == "abcdefghijklmnopqrstuvwxyz"

\* The character of `to` at the place c has in `from`; c itself when it has none.
MapChar(c, from, to) ==
    IF \E i \in 1..Len(from) : Ch(from, i) = c
    THEN Ch(to, CHOOSE i \in 1..Len(from) : Ch(from, i) = c)
    ELSE c

TurkishLetters == "{}$%&#~^;:?!"
\* tr_map = str.maketrans({...}): the image of each of TurkishLetters
TrMapImage == "iissgguuoocc"

\* str.casefold() of one character: Unicode full case folding.  Capital I with
\* dot folds to the two characters "i" + combining dot above.
casefold_char(c) ==
    IF c = CapitalDotI THEN "i" \o CombiningDot
    ELSE MapChar(MapChar(c, UpperAZ, LowerAZ), "%#^:!", "$&~;?")

RECURSIVE casefold(_)
casefold(s) ==
    IF Len(s) = 0 THEN "" ELSE casefold_char(Ch(s, 1)) \o casefold(Tail(s))

\* s.translate(tr_map)
RECURSIVE translate(_)
translate(s) ==
    IF Len(s) = 0 THEN ""
    ELSE MapChar(Ch(s, 1), TurkishLetters, TrMapImage) \o translate(Tail(s))

IsAlnum(c) == (\E i \in 1..Len(LowerAZ) : Ch(LowerAZ, i) = c) \/ c \in Digits

\* re.sub(r"[^a-z0-9]+", " ", s): every maximal run of other characters becomes one space
RECURSIVE sub_non_alnum(_)
sub_non_alnum(s) ==
    IF Len(s) = 0 THEN ""
    ELSE IF IsAlnum(Ch(s, 1)) THEN Ch(s, 1) \o sub_non_alnum(Tail(s))
    ELSE IF Len(s) > 1 /\ ~IsAlnum(Ch(s, 2)) THEN sub_non_alnum(Tail(s))
    ELSE " " \o sub_non_alnum(Tail(s))

\* re.sub(r"\s+", " ", s): every maximal run of whitespace becomes one space
RECURSIVE sub_spaces(_)
sub_spaces(s) ==
    IF Len(s) = 0 THEN ""
    ELSE IF Ch(s, 1) \notin Whitespace THEN Ch(s, 1) \o sub_spaces(Tail(s))
    ELSE IF Len(s) > 1 /\ Ch(s, 2) \in Whitespace THEN sub_spaces(Tail(s))
    ELSE " " \o sub_spaces(Tail(s))

\* The synonyms dict, in source order.
synonyms ==
    << <<"c reaktif protein", "crp">>,
       <<"c reaktif protein crp", "crp">>,
       <<"crp turbidimetrik", "crp">>,
       <<"hs crp", "hs crp">>,
       <<"aclik kan sekeri", "glukoz aclik">>,
       <<"glukoz aclik kan sekeri", "glukoz aclik">>,
       <<"glukoz", "glukoz">>,
       <<"hba1c", "hba1c">>,
       <<"hb a1c", "hba1c">>,
       <<"vitamin d", "25 oh vitamin d">>,
       <<"25 oh vitamin d", "25 oh vitamin d">>,
       <<"b12", "vitamin b12">>,
       <<"vitamin b12", "vitamin b12">>,
       <<"total kolesterol", "kolesterol total">>,
       <<"kolesterol", "kolesterol total">>,
       <<"ldl kolesterol", "ldl">>,
       <<"hdl kolesterol", "hdl">>,
       <<"trigliserid", "trigliserid">>,
       <<"trigliserit", "trigliserid">>,
       <<"alt", "alt">>,
       <<"ast", "ast">>,
       <<"ggt", "ggt">>,
       <<"tsh", "tsh">>,
       <<"ferritin", "ferritin">>,
       <<"demir", "demir">>,
       <<"ure", "ure">>,
       <<"kreatinin", "kreatinin">>,
       <<"egfr", "egfr">>,
       <<"uric acid", "urik asit">>,
       <<"urik asit", "urik asit">>,
       <<"hemoglobin", "hemoglobin">>,
       <<"hb", "hemoglobin">> >>

\* A bug the table could have: an entry whose value is not the canonical key
\* but another key of the table ("total kolesterol": "kolesterol").
synonyms_get_chained(s) ==
    IF s = "total kolesterol" THEN "kolesterol"
    ELSE IF \E i \in 1..Len(synonyms) : synonyms[i][1] = s
    THEN synonyms[CHOOSE i \in 1..Len(synonyms) : synonyms[i][1] = s][2]
    ELSE s

\* synonyms.get(s, s)
synonyms_get(s) ==
    IF \E i \in 1..Len(synonyms) : synonyms[i][1] = s
    THEN synonyms[CHOOSE i \in 1..Len(synonyms) : synonyms[i][1] = s][2]
    ELSE s

\* The key before the synonym lookup.  name is Optional[str].
pre_synonym_key(name) ==
    LET s0 == casefold(strip(IF IsNone(name) THEN "" ELSE Val(name)))
        s1 == translate(s0)
        s2 == sub_non_alnum(s1)
    IN  strip(sub_spaces(s2))

norm_key(name) == synonyms_get(pre_synonym_key(name))

-----------------------------------------------------------------------------
(* norm_key: inputs.  A test name in some letter case, and the same name in  *)
(* another letter case.                                                      *)

RECURSIVE MapStr(_, _, _)
MapStr(s, from, to) ==
    IF Len(s) = 0 THEN "" ELSE MapChar(Ch(s, 1), from, to) \o MapStr(Tail(s), from, to)

\* Capitals as a Turkish report prints them: i -> capital I with dot, dotless i -> I.
UpperTurkish(s) == MapStr(s, LowerAZ \o "{$&~;?", "ABCDEFGH}JKLMNOPQRSTUVWXYZ" \o "I%#^:!")
\* str.upper(): i -> I, dotless i -> I.
UpperPlain(s) == MapStr(s, LowerAZ \o "{$&~;?", UpperAZ \o "I%#^:!")
\* Small letters as Turkish writes them: I -> dotless i, capital I with dot -> i.
LowerTurkish(s) == MapStr(s, UpperAZ \o "}%#^:!", "abcdefgh{jklmnopqrstuvwxyz" \o "i$&~;?")
\* First letter capital.
TitleTurkish(s) == IF Len(s) = 0 THEN "" ELSE UpperTurkish(Ch(s, 1)) \o Tail(s)

CaseVariants(s) ==
    { s, UpperTurkish(s), UpperPlain(s), LowerTurkish(UpperPlain(s)), TitleTurkish(s) }

\* Test names in small letters, as reports spell them.
ReportNames ==
    { "crp", "c-reaktif protein", "c reaktif protein (crp)", "crp (t~rbidimetrik)", "hs-crp",
      "a?l{k kan $ekeri", "glukoz", "glukoz (a?l{k)", "hba1c", "hb a1c", "hb-a1c",
      "vitamin d", "25-oh vitamin d", "b12", "vitamin b12", "vitamin b-12",
      "total kolesterol", "kolesterol", "ldl kolesterol", "hdl kolesterol",
      "trigliserid", "trigliserit", "ferritin", "demir", "~re", "kreatinin",
      "~rik asit", "uric acid", "hemoglobin", "hb", "magnezyum", "i", "" }

SynonymKeys == { synonyms[i][1] : i \in 1..Len(synonyms) }
SynonymValues == { synonyms[i][2] : i \in 1..Len(synonyms) }

NamePads == { <<"", "">>, <<" ", "\t">>, <<"", " .">> }

NormArgs ==
    { [name |-> Some(p[1] \o v1 \o p[2]), other |-> Some(p[1] \o v2 \o p[2])] :
        <<v1, v2, p>> \in UNION { CaseVariants(b) \X CaseVariants(b) \X NamePads : b \in ReportNames } }
    \cup { [name |-> Some(k), other |-> Some(k)] : k \in SynonymKeys \cup SynonymValues }
    \cup { [name |-> None, other |-> Some("")] }

InitNorm ==
    /\ call = "norm_key"
    /\ arg \in NormArgs
    /\ ret = Pending
    /\ pc = "start"
    /\ meta = None
    /\ engine = None

\* norm_key on the name and on its other spelling.
NormKey ==
    /\ call = "norm_key"
    /\ pc = "start"
    /\ ret' = [key |-> norm_key(arg.name), other_key |-> norm_key(arg.other)]
    /\ pc' = "normalized"
    /\ UNCHANGED <<call, arg, meta, engine>>

\* norm_key on the keys the first round returned.
NormKeyAgain ==
    /\ call = "norm_key"
    /\ pc = "normalized"
    /\ ret' = [key |-> ret.key, other_key |-> ret.other_key,
               again |-> norm_key(Some(ret.key)),
               other_again |-> norm_key(Some(ret.other_key))]
    /\ pc' = "done"
    /\ UNCHANGED <<call, arg, meta, engine>>

NextNorm == NormKey \/ NormKeyAgain

SpecNorm == InitNorm /\ [][NextNorm]_vars

\* C6 -- Normalizer idempotence: norm_key(norm_key(x)) = norm_key(x) for every
\* name x, and every value of the synonym table is a fixed point of norm_key.
NormKeyIdempotent ==
    /\ (call = "norm_key" /\ pc = "done")
        => (ret.again = ret.key /\ ret.other_again = ret.other_key)
    /\ (call = "norm_key" /\ pc # "start" /\ ~IsNone(arg.name) /\ Val(arg.name) \in SynonymValues)
        => ret.key = Val(arg.name)

\* A name the synonym table maps to another key has been normalized twice.
NormKeyIdempotentWitness ==
    /\ call = "norm_key" /\ pc = "done"
    /\ arg.name = Some(" HB-A1C\t")
    /\ pre_synonym_key(arg.name) = "hb a1c"
    /\ ret.key = "hba1c" /\ ret.again = "hba1c"

\* C7 -- Normalizer case-insensitivity: two names that differ only in letter
\* case, Turkish capital letters included, normalize to the same key.
NormKeyCaseInsensitive ==
    (call = "norm_key" /\ pc # "start") => ret.key = ret.other_key

-----------------------------------------------------------------------------
(* LabRow and _extract_row_from_line *)

LabRow(test_name, result_text, result_value, unit, ref_text, ref, status) ==
    [test_name |-> test_name, result_text |-> result_text, result_value |-> result_value,
     unit |-> unit, ref_text |-> ref_text, ref |-> ref, status |-> status]

\* The index of the first " " of s at or after i; 0 when there is none.
RECURSIVE FindSpace(_, _)
FindSpace(s, i) ==
    IF i > Len(s) THEN 0 ELSE IF Ch(s, i) = " " THEN i ELSE FindSpace(s, i + 1)

\* s.split(" ")
RECURSIVE split(_)
split(s) ==
    LET i == FindSpace(s, 1)
    IN  IF i = 0 THEN <<s>>
        ELSE <<SubSeq(s, 1, i - 1)>> \o split(SubSeq(s, i + 1, Len(s)))

\* " ".join(tokens)
RECURSIVE join(_)
join(tokens) ==
    IF Len(tokens) = 0 THEN ""
    ELSE IF Len(tokens) = 1 THEN tokens[1]
    ELSE tokens[1] \o " " \o join(Tail(tokens))

\* _RE_NUM.fullmatch(token), _RE_NUM = [-+]?\d+(?:[.,]\d+)?
_RE_NUM_fullmatch(token) == NumEnd(token, 1, {"-", "+"}) = Len(token) + 1

\* for m in rx.finditer(s): ref_match = m -- the last of the successive matches
\* of rx from position i on; best when there is none.  (The steps of the scan
\* are operators of their own so that each value is computed once.)
RECURSIVE finditer_last(_, _, _, _)
finditer_step(rx, s, m, best) ==
    IF IsMatch(m) THEN finditer_last(rx, s, m.end, m) ELSE best

finditer_last(rx, s, i, best) == finditer_step(rx, s, RxSearch(rx, s, i), best)

\* for rx in (_RE_RANGE, _RE_LT, _RE_GT): for m in rx.finditer(raw): ref_match = m
ref_match(raw) ==
    finditer_last("gt", raw, 1,
        finditer_last("lt", raw, 1,
            finditer_last("range", raw, 1, NoMatch)))

\* A bug the token scan could have: it runs from the left and stops at the
\* first numeric token.
val_idx_leftmost(tokens) ==
    IF \E i \in 1..Len(tokens) : _RE_NUM_fullmatch(tokens[i])
    THEN CHOOSE i \in 1..Len(tokens) :
            /\ _RE_NUM_fullmatch(tokens[i])
            /\ \A j \in 1..(i - 1) : ~_RE_NUM_fullmatch(tokens[j])
    ELSE 0

\* for i in range(len(tokens)-1, -1, -1): the right-most numeric token
\* (counted from 1); 0 for val_idx = None.
val_idx(tokens) ==
    IF \E i \in 1..Len(tokens) : _RE_NUM_fullmatch(tokens[i])
    THEN CHOOSE i \in 1..Len(tokens) :
            /\ _RE_NUM_fullmatch(tokens[i])
            /\ \A j \in (i + 1)..Len(tokens) : ~_RE_NUM_fullmatch(tokens[j])
    ELSE 0

MinLineLen == 8     \* if len(raw) < 8
MinNameLen == 2     \* if len(name) < 2

\* A bug the extractor could have: the row is returned whatever the length of
\* the name.
extract_row_at_any_name(tokens, vi, ref_text, value, name, ref) ==
    Some(LabRow(name, tokens[vi], value,
                strip(join(SubSeq(tokens, vi + 1, Len(tokens)))),
                ref_text, ref, classify_value(value, ref, DefaultRatio)))

\* return LabRow(...), after the test on the name
extract_row_at(tokens, vi, ref_text, value, name, ref) ==
    IF Len(name) < MinNameLen THEN None
    ELSE Some(LabRow(name, tokens[vi], value,
                     strip(join(SubSeq(tokens, vi + 1, Len(tokens)))),
                     ref_text, ref, classify_value(value, ref, DefaultRatio)))

\* A bug the extractor could have: the reference is parsed from the value
\* token, not from the reference fragment.
extract_row_tokens_ref_of_value(tokens, vi, ref_text) ==
    IF vi = 0 THEN None
    ELSE extract_row_at(tokens, vi, ref_text, _to_float(tokens[vi]),
                        strip(join(SubSeq(tokens, 1, vi - 1))),
                        parse_ref(Some(tokens[vi])))

\* from val_idx on
extract_row_tokens(tokens, vi, ref_text) ==
    IF vi = 0 THEN None
    ELSE extract_row_at(tokens, vi, ref_text, _to_float(tokens[vi]),
                        strip(join(SubSeq(tokens, 1, vi - 1))),
                        parse_ref(Some(ref_text)))

\* from ref_match on: ref_text = raw[ref_match.start():].strip(),
\* left = raw[:ref_match.start()].strip(), tokens = left.split(" ")
extract_row_match(raw, rm) ==
    IF ~IsMatch(rm) THEN None
    ELSE extract_row_tokens(split(strip(SubSeq(raw, 1, rm.start - 1))),
                            val_idx(split(strip(SubSeq(raw, 1, rm.start - 1)))),
                            strip(SubSeq(raw, rm.start, Len(raw))))

\* from raw on
extract_row_raw(raw) ==
    IF Len(raw) < MinLineLen THEN None ELSE extract_row_match(raw, ref_match(raw))

\* The body of _extract_row_from_line on the str it works on: None or a LabRow.
\* raw = re.sub(r'\s+', ' ', line.strip())
extract_row(line) == extract_row_raw(sub_spaces(strip(line)))

\* A bug _extract_row_from_line could have: line.strip() without the `or ""`,
\* an AttributeError when line is None.
extract_row_from_line_unguarded(line) ==
    IF IsNone(line) THEN Raise ELSE extract_row(Val(line))

\* line is Optional[str]; (line or "")
_extract_row_from_line(line) ==
    extract_row(IF IsNone(line) THEN "" ELSE Val(line))

-----------------------------------------------------------------------------
(* _extract_row_from_line: inputs.  Lines put together from name tokens, a   *)
(* numeric token, unit tokens and a reference fragment; and other text.      *)

LineNames ==
    { <<"Glukoz">>, <<"HDL", "Kolesterol">>, <<"K">>, <<"Na">>, <<"HbA1c">>,
      <<"25", "OH", "Vitamin", "D">>, <<"Vitamin", "B", "12">>, <<"CA", "19-9">>,
      <<"T", "3">> }

LineValues == { "148", "28", "5", "4,5", "-3", "+2.5" }

LineUnits == { <<>>, <<"mg/dL">>, <<"%">>, <<"x", "10^3/uL">> }

LineRefs == { "70 - 100", "3,5 - 5,1", "0-5", "<5", "< 200", ">40", "-5 - 10" }

\* between two tokens
LineGaps == { " ", " \t" }

RECURSIVE JoinWith(_, _)
JoinWith(tokens, gap) ==
    IF Len(tokens) = 0 THEN ""
    ELSE IF Len(tokens) = 1 THEN tokens[1]
    ELSE tokens[1] \o gap \o JoinWith(Tail(tokens), gap)

WellFormedArgs ==
    { [kind |-> "well_formed", name |-> n, value |-> v, unit |-> u, ref |-> r,
       line |-> Some(JoinWith(n \o <<v>> \o u \o <<r>>, g))] :
        n \in LineNames, v \in LineValues, u \in LineUnits, r \in LineRefs, g \in LineGaps }

OtherLines ==
    { None, Some(""), Some("   "), Some(" \t "), Some("Hasta Adi Soyadi"),
      Some("Tetkik Sonuc Birim Referans"), Some("Tarih: 2024-01-15 10:30"),
      Some("12345678"), Some("<5"), Some("<<<<>>>>----"), Some("148 mg/dL 70 - 100"),
      Some("Glukoz mg/dL 70 - 100"), Some("Glukoz 148 mg/dL"), Some("CRP 3 mg/L <5 0 - 5"),
      Some("LDL 120 mg/dL 0 - 130 >100"), Some("X >1 5 0 - 9"), Some("- - - - - - -"),
      Some("Glukoz 1.2.3 70 - 100"), Some("Sodyum 140 mmol/L 136 - 145 "),
      Some("eGFR >60 75 mL/dk 60 - 120"), Some("AB 1 2 <3-4"), Some("Glukoz 95 10 -<5") }

OtherLineArgs ==
    { [kind |-> "text", name |-> <<>>, value |-> "", unit |-> <<>>, ref |-> "", line |-> l] :
        l \in OtherLines }

ExtractArgs == WellFormedArgs \cup OtherLineArgs

InitExtract ==
    /\ call = "_extract_row_from_line"
    /\ arg \in ExtractArgs
    /\ ret = Pending
    /\ pc = "start"
    /\ meta = None
    /\ engine = None

ExtractRow ==
    /\ call = "_extract_row_from_line"
    /\ pc = "start"
    /\ ret' = _extract_row_from_line(arg.line)
    /\ pc' = "done"
    /\ UNCHANGED <<call, arg, meta, engine>>

NextExtract == ExtractRow

SpecExtract == InitExtract /\ [][NextExtract]_vars

IsLabRow(r) ==
    /\ DOMAIN r = {"test_name", "result_text", "result_value", "unit", "ref_text", "ref", "status"}
    /\ r.status \in Statuses
    /\ r.ref.mode \in {"range", "lt", "gt", "unknown"}

\* C8 -- Extractor non-crash: on any input (None, the empty string, whitespace
\* only and text without numbers included) _extract_row_from_line returns
\* nothing or a LabRow and raises nothing.
ExtractNeverRaises ==
    (call = "_extract_row_from_line" /\ pc = "done")
        => /\ ret # Raise
           /\ (IsNone(ret) \/ (Len(ret) = 1 /\ IsLabRow(Val(ret))))

\* None has been given to the extractor, which returned nothing.
ExtractNeverRaisesWitness ==
    /\ call = "_extract_row_from_line" /\ pc = "done"
    /\ IsNone(arg.line)
    /\ IsNone(ret)

\* The matches of all three reference patterns in s: (start, end) pairs.
RECURSIVE finditer_all(_, _, _)
finditer_all(rx, s, i) ==
    LET m == RxSearch(rx, s, i)
    IN  IF IsMatch(m) THEN {<<m.start, m.end>>} \cup finditer_all(rx, s, m.end) ELSE {}

ReferenceShaped(s) ==
    finditer_all("range", s, 1) \cup finditer_all("lt", s, 1) \cup finditer_all("gt", s, 1)

\* The line is name tokens, one numeric token, non-numeric unit tokens and a
\* reference fragment that is its only reference-shaped substring.
WellFormedLine ==
    /\ arg.kind = "well_formed"
    /\ _RE_NUM_fullmatch(arg.value)
    /\ \A i \in 1..Len(arg.unit) : ~_RE_NUM_fullmatch(arg.unit[i])
    /\ LET raw == sub_spaces(strip(Val(arg.line)))
       IN  ReferenceShaped(raw) = { <<Len(raw) - Len(arg.ref) + 1, Len(raw) + 1>> }

\* The row the claim describes for a well-formed line.
WellFormedRow ==
    LET ref == parse_ref(Some(arg.ref))
        v == _to_float(arg.value)
    IN  LabRow(join(arg.name), arg.value, v, join(arg.unit), arg.ref, ref,
               classify_value(v, ref, DefaultRatio))

\* C9 (as stated) -- Well-formed line extraction: for every well-formed line
\* the extractor returns the row with the joined name tokens, the value of the
\* numeric token right of the name, the joined unit tokens, parse_ref of the
\* fragment and the status classify_value gives.
WellFormedExtraction ==
    (call = "_extract_row_from_line" /\ pc = "done" /\ WellFormedLine)
        => ret = Some(WellFormedRow)

\* C9 (amended) -- the same, for well-formed lines of at least 8 characters
\* (whitespace collapsed) whose joined name has at least 2 characters.
WellFormedExtractionLongEnough ==
    (/\ call = "_extract_row_from_line" /\ pc = "done" /\ WellFormedLine
     /\ Len(sub_spaces(strip(Val(arg.line)))) >= 8
     /\ Len(join(arg.name)) >= 2)
        => ret = Some(WellFormedRow)

\* A row has been extracted from a line whose name holds numeric tokens.
WellFormedExtractionWitness ==
    /\ call = "_extract_row_from_line" /\ pc = "done" /\ WellFormedLine
    /\ arg.name = <<"25", "OH", "Vitamin", "D">> /\ arg.value = "28"
    /\ arg.unit = <<"x", "10^3/uL">> /\ arg.ref = ">40"
    /\ ~IsNone(ret)
    /\ Val(ret).test_name = "25 OH Vitamin D" /\ Val(ret).result_value = Some(Whole(28))
    /\ Val(ret).ref.mode = "gt" /\ Val(ret).status = "low"

-----------------------------------------------------------------------------
(* Insight and the clinical thresholds.  The title of an Insight is modelled *)
(* by its text without the number and the value the number is formatted from *)
(* (None when it shows none; the title shows it rounded to 0, 1 or 2         *)
(* decimals); the detail text is fixed by the title and left out.            *)

Insight(severity, title, value) == [severity |-> severity, title |-> title, value |-> value]

\* A value of the thresholds dict, as json.loads gives it: a number (in units
\* of 1/Scale), a string that is not a number ("abc"), or NaN.
Num(n) == <<"number", n>>
NonNumeric == <<"string", 0>>
NaN == <<"nan", 0>>

\* DEFAULT_CLINICAL_THRESHOLDS
DEFAULT_CLINICAL_THRESHOLDS ==
    [ weight_rate_info |-> Num(Whole(1)),
      weight_rate_warn |-> Num(Whole(2)),
      waist_info       |-> Num(Whole(95)),
      waist_warn       |-> Num(Whole(110)),
      crp_warn         |-> Num(Whole(10)),
      hba1c_warn       |-> Num(Tenths(5, 7)),
      hba1c_critical   |-> Num(Tenths(6, 5)),
      ldl_warn         |-> Num(Whole(160)),
      ldl_critical     |-> Num(Whole(190)) ]

\* self.th.get(key, default)
th_get(th, key, default) == IF key \in DOMAIN th THEN th[key] ELSE Num(default)

\* float(v) raises ValueError on a string that is not a number
float_raises(v) == v[1] = "string"

\* n / d >= float(v) and n / d > float(v), for d > 0; every comparison with
\* NaN is false
ge_float(n, d, v) == v[1] = "number" /\ n >= v[2] * d
gt_float(n, d, v) == v[1] = "number" /\ n > v[2] * d

\* the exception float() raised inside a rule, where the insight would be
ValueError == Insight("raise", "ValueError", None)

\* the call returns out unless a rule raised; a call that raised is the
\* result <<ValueError>>
returned(out) == IF \E i \in 1..Len(out) : out[i] = ValueError THEN <<ValueError>> ELSE out

\* sev_order = {"critical": 0, "warn": 1, "info": 2}; sev_order.get(severity, 9)
sev_order(severity) ==
    CASE severity = "critical" -> 0
      [] severity = "warn"     -> 1
      [] severity = "info"     -> 2
      [] OTHER                 -> 9

RECURSIVE Reversed(_)
Reversed(s) == IF Len(s) = 0 THEN <<>> ELSE Append(Reversed(Tail(s)), Head(s))

\* A bug the sort could have: insights of equal rank do not keep their order.
WithRankReversed(out, rank) == Reversed(SelectSeq(out, LAMBDA i : sev_order(i.severity) = rank))

WithRank(out, rank) == SelectSeq(out, LAMBDA i : sev_order(i.severity) = rank)

\* A bug the engines could have: the list is returned as the rules filled it.
sort_skipped(out) == out

\* out.sort(key=lambda i: sev_order.get(i.severity, 9)): list.sort is stable,
\* so the result is the insights of rank 0 in their order, then rank 1, 2, 9.
sort_by_severity(out) ==
    WithRank(out, 0) \o WithRank(out, 1) \o WithRank(out, 2) \o WithRank(out, 9)

-----------------------------------------------------------------------------
(* ClinicalIntelligence.lab_insights.  A row is the dict of a lab result:    *)
(* test_name, result_value (Optional float), status.                         *)

\* A bug the lookup could have: every row with a value replaces the row kept.
by_key_step_last_numeric(by_key, r, k) ==
    IF k \notin DOMAIN by_key THEN by_key @@ (k :> r)
    ELSE IF ~IsNone(r.result_value) THEN [by_key EXCEPT ![k] = r]
         ELSE by_key

\* one round of `for r in lab_rows`, k = norm_key(r.get("test_name", ""))
by_key_step(by_key, r, k) ==
    IF k \notin DOMAIN by_key THEN by_key @@ (k :> r)
    ELSE IF IsNone(by_key[k].result_value) /\ ~IsNone(r.result_value)
         THEN [by_key EXCEPT ![k] = r]
         ELSE by_key

RECURSIVE by_key_of(_)
by_key_of(lab_rows) ==
    IF Len(lab_rows) = 0 THEN <<>>
    ELSE by_key_step(by_key_of(SubSeq(lab_rows, 1, Len(lab_rows) - 1)),
                     lab_rows[Len(lab_rows)],
                     norm_key(Some(lab_rows[Len(lab_rows)].test_name)))

getv(by_key, key) == IF key \in DOMAIN by_key THEN by_key[key].result_value ELSE None

\* (r.get("status") or "unknown") if r else "unknown"
status_of(by_key, key) ==
    IF key \in DOMAIN by_key /\ by_key[key].status # "" THEN by_key[key].status ELSE "unknown"

\* a or b on Optional[float]: None and 0.0 are falsy
py_or(a, b) == IF ~IsNone(a) /\ Val(a) # 0 THEN a ELSE b

\* A bug the glycemic rule could have: '>' where the code has '>='.
glycemic_rule_strict(a1c, g, th) ==
    IF ~IsNone(a1c) THEN
        IF float_raises(th_get(th, "hba1c_critical", Tenths(6, 5))) THEN <<ValueError>>
        ELSE IF gt_float(Val(a1c), 1, th_get(th, "hba1c_critical", Tenths(6, 5)))
        THEN <<Insight("critical", "HbA1c yuksek", a1c)>>
        ELSE IF float_raises(th_get(th, "hba1c_warn", Tenths(5, 7))) THEN <<ValueError>>
        ELSE IF gt_float(Val(a1c), 1, th_get(th, "hba1c_warn", Tenths(5, 7)))
        THEN <<Insight("warn", "HbA1c sinirda/yuksek", a1c)>>
        ELSE <<Insight("info", "HbA1c normal", a1c)>>
    ELSE IF ~IsNone(g) THEN
        IF Whole(60) < Val(g) /\ Val(g) < Whole(200) THEN
            IF Val(g) > Whole(126) THEN <<Insight("critical", "Aclik glukozu yuksek", g)>>
            ELSE IF Val(g) > Whole(100) THEN <<Insight("warn", "Aclik glukozu sinirda/yuksek", g)>>
            ELSE <<Insight("info", "Aclik glukozu normal", g)>>
        ELSE <<>>
    ELSE <<>>

\* --- Glycemic ---
glycemic_rule(a1c, g, th) ==
    IF ~IsNone(a1c) THEN
        IF float_raises(th_get(th, "hba1c_critical", Tenths(6, 5))) THEN <<ValueError>>
        ELSE IF ge_float(Val(a1c), 1, th_get(th, "hba1c_critical", Tenths(6, 5)))
        THEN <<Insight("critical", "HbA1c yuksek", a1c)>>
        ELSE IF float_raises(th_get(th, "hba1c_warn", Tenths(5, 7))) THEN <<ValueError>>
        ELSE IF ge_float(Val(a1c), 1, th_get(th, "hba1c_warn", Tenths(5, 7)))
        THEN <<Insight("warn", "HbA1c sinirda/yuksek", a1c)>>
        ELSE <<Insight("info", "HbA1c normal", a1c)>>
    ELSE IF ~IsNone(g) THEN
        IF Whole(60) <= Val(g) /\ Val(g) <= Whole(200) THEN
            IF Val(g) >= Whole(126) THEN <<Insight("critical", "Aclik glukozu yuksek", g)>>
            ELSE IF Val(g) >= Whole(100) THEN <<Insight("warn", "Aclik glukozu sinirda/yuksek", g)>>
            ELSE <<Insight("info", "Aclik glukozu normal", g)>>
        ELSE <<>>
    ELSE <<>>

\* --- Lipids ---
ldl_rule(ldl, th) ==
    IF ~IsNone(ldl) /\ Whole(40) <= Val(ldl) /\ Val(ldl) <= Whole(250) THEN
        IF float_raises(th_get(th, "ldl_critical", Whole(190))) THEN <<ValueError>>
        ELSE IF ge_float(Val(ldl), 1, th_get(th, "ldl_critical", Whole(190)))
        THEN <<Insight("critical", "LDL cok yuksek", ldl)>>
        ELSE IF float_raises(th_get(th, "ldl_warn", Whole(160))) THEN <<ValueError>>
        ELSE IF ge_float(Val(ldl), 1, th_get(th, "ldl_warn", Whole(160)))
        THEN <<Insight("warn", "LDL yuksek", ldl)>>
        ELSE IF Val(ldl) >= Whole(130) THEN <<Insight("warn", "LDL sinirda", ldl)>>
        ELSE <<>>
    ELSE <<>>

hdl_rule(hdl) ==
    IF ~IsNone(hdl) /\ Whole(10) <= Val(hdl) /\ Val(hdl) <= Whole(120) /\ Val(hdl) < Whole(40)
    THEN <<Insight("warn", "HDL dusuk", hdl)>>
    ELSE <<>>

tg_rule(tg) ==
    IF ~IsNone(tg) /\ Whole(30) <= Val(tg) /\ Val(tg) <= Whole(800) THEN
        IF Val(tg) >= Whole(500) THEN <<Insight("critical", "Trigliserid cok yuksek", tg)>>
        ELSE IF Val(tg) >= Whole(200) THEN <<Insight("warn", "Trigliserid yuksek", tg)>>
        ELSE IF Val(tg) >= Whole(150) THEN <<Insight("warn", "Trigliserid sinirda", tg)>>
        ELSE <<>>
    ELSE <<>>

total_rule(total) ==
    IF ~IsNone(total) /\ Whole(80) <= Val(total) /\ Val(total) <= Whole(400)
       /\ Val(total) >= Whole(240)
    THEN <<Insight("warn", "Total kolesterol yuksek", total)>>
    ELSE <<>>

\* --- Liver ---: for key, label in [("alt","ALT"),("ast","AST"),("ggt","GGT")]
liver_rule(by_key, key, label) ==
    IF status_of(by_key, key) = "high"
    THEN <<Insight("warn", label \o " yuksek", getv(by_key, key))>>
    ELSE <<>>

\* --- Thyroid ---
tsh_rule(tsh) ==
    IF ~IsNone(tsh) THEN
        IF Val(tsh) >= Whole(10) THEN <<Insight("critical", "TSH yuksek", tsh)>>
        ELSE IF Val(tsh) > Tenths(4, 5) THEN <<Insight("warn", "TSH yuksek", tsh)>>
        ELSE IF Val(tsh) < Tenths(0, 1) THEN <<Insight("critical", "TSH cok dusuk", tsh)>>
        ELSE IF Val(tsh) < Tenths(0, 4) THEN <<Insight("warn", "TSH dusuk", tsh)>>
        ELSE <<>>
    ELSE <<>>

\* --- Iron / Vitamins ---
ferritin_rule(ferr) ==
    IF ~IsNone(ferr) /\ Val(ferr) < Whole(15)
    THEN <<Insight("warn", "Ferritin dusuk", ferr)>>
    ELSE <<>>

vitd_rule(vitd) ==
    IF ~IsNone(vitd) THEN
        IF Val(vitd) < Whole(10) THEN <<Insight("warn", "Vitamin D cok dusuk", vitd)>>
        ELSE IF Val(vitd) < Whole(20) THEN <<Insight("warn", "Vitamin D dusuk", vitd)>>
        ELSE IF Val(vitd) < Whole(30) THEN <<Insight("info", "Vitamin D sinirda", vitd)>>
        ELSE <<>>
    ELSE <<>>

b12_rule(b12) ==
    IF ~IsNone(b12) /\ Val(b12) < Whole(200)
    THEN <<Insight("warn", "B12 dusuk", b12)>>
    ELSE <<>>

\* --- Inflammation ---
crp_rule(crp, st, th) ==
    IF IsNone(crp) THEN <<>>
    ELSE IF st = "high" THEN <<Insight("warn", "CRP yuksek", crp)>>
    ELSE IF float_raises(th_get(th, "crp_warn", Whole(10))) THEN <<ValueError>>
    ELSE IF gt_float(Val(crp), 1, th_get(th, "crp_warn", Whole(10)))
    THEN <<Insight("warn", "CRP yuksek", crp)>>
    ELSE <<>>

\* --- Kidney ---
egfr_rule(egfr) ==
    IF ~IsNone(egfr) /\ Val(egfr) < Whole(60)
    THEN <<Insight("warn", "eGFR dusuk", egfr)>>
    ELSE <<>>

kreatinin_rule(kreat, st) ==
    IF ~IsNone(kreat) /\ st = "high"
    THEN <<Insight("warn", "Kreatinin yuksek", kreat)>>
    ELSE <<>>

\* A bug the rules could have: the glucose branch is an `if` of its own, not
\* the `elif` of the HbA1c branch.
lab_rules_both_glycemic(by_key, th) ==
    glycemic_rule(getv(by_key, "hba1c"), None, th)
    \o glycemic_rule(None, py_or(getv(by_key, "glukoz aclik"), getv(by_key, "glukoz")), th)
    \o ldl_rule(getv(by_key, "ldl"), th)
    \o hdl_rule(getv(by_key, "hdl"))
    \o tg_rule(getv(by_key, "trigliserid"))
    \o total_rule(getv(by_key, "kolesterol total"))
    \o liver_rule(by_key, "alt", "ALT")
    \o liver_rule(by_key, "ast", "AST")
    \o liver_rule(by_key, "ggt", "GGT")
    \o tsh_rule(getv(by_key, "tsh"))
    \o ferritin_rule(getv(by_key, "ferritin"))
    \o vitd_rule(getv(by_key, "25 oh vitamin d"))
    \o b12_rule(getv(by_key, "vitamin b12"))
    \o crp_rule(py_or(getv(by_key, "crp"), getv(by_key, "hs crp")), status_of(by_key, "crp"), th)
    \o egfr_rule(getv(by_key, "egfr"))
    \o kreatinin_rule(getv(by_key, "kreatinin"), status_of(by_key, "kreatinin"))

\* out after the last rule, in the order the rules ran
lab_rules(by_key, th) ==
    glycemic_rule(getv(by_key, "hba1c"),
                  py_or(getv(by_key, "glukoz aclik"), getv(by_key, "glukoz")), th)
    \o ldl_rule(getv(by_key, "ldl"), th)
    \o hdl_rule(getv(by_key, "hdl"))
    \o tg_rule(getv(by_key, "trigliserid"))
    \o total_rule(getv(by_key, "kolesterol total"))
    \o liver_rule(by_key, "alt", "ALT")
    \o liver_rule(by_key, "ast", "AST")
    \o liver_rule(by_key, "ggt", "GGT")
    \o tsh_rule(getv(by_key, "tsh"))
    \o ferritin_rule(getv(by_key, "ferritin"))
    \o vitd_rule(getv(by_key, "25 oh vitamin d"))
    \o b12_rule(getv(by_key, "vitamin b12"))
    \o crp_rule(py_or(getv(by_key, "crp"), getv(by_key, "hs crp")), status_of(by_key, "crp"), th)
    \o egfr_rule(getv(by_key, "egfr"))
    \o kreatinin_rule(getv(by_key, "kreatinin"), status_of(by_key, "kreatinin"))

NeutralInsight == Insight("info", "Belirgin bir otomatik uyari bulunamadi", None)

\* A bug the fallback could have: the 'and lab_rows' test left out.
lab_fallback_unguarded(out, lab_rows) == IF Len(out) = 0 THEN <<NeutralInsight>> ELSE out

\* if not out and lab_rows: add("info", ...)
lab_fallback(out, lab_rows) ==
    IF Len(out) = 0 /\ Len(lab_rows) > 0 THEN <<NeutralInsight>> ELSE out

lab_insights(lab_rows, th) ==
    returned(sort_by_severity(lab_fallback(lab_rules(by_key_of(lab_rows), th), lab_rows)))

-----------------------------------------------------------------------------
(* Measurements.  A row of the measurements table: measured_at is the day    *)
(* number of its YYYY-MM-DD date (the text order of such dates is their day  *)
(* order), created_at the time of the insert, weight_kg and waist_cm         *)
(* Optional numbers in units of 1/Scale, height_cm an Optional number of     *)
(* whole centimetres.                                                        *)

Measurement(measured_at, created_at, height_cm, weight_kg, waist_cm) ==
    [ measured_at |-> measured_at, created_at |-> created_at,
      height_cm |-> height_cm, weight_kg |-> weight_kg, waist_cm |-> waist_cm ]

\* `not x` on an Optional[float]
falsy(x) == IsNone(x) \/ Val(x) = 0

\* Measurement.bmi: weight_kg / (h_m * h_m) with h_m = height_cm / 100.0, as
\* the fraction n / d
bmi(m) ==
    IF falsy(m.height_cm) \/ falsy(m.weight_kg) THEN None
    ELSE IF Val(m.height_cm) <= 0 THEN None
    ELSE Some([n |-> Val(m.weight_kg) * 10000,
               d |-> Val(m.height_cm) * Val(m.height_cm) * Scale])

\* ORDER BY measured_at DESC, created_at DESC
order_desc(a, b) ==
    \/ a.measured_at > b.measured_at
    \/ a.measured_at = b.measured_at /\ a.created_at > b.created_at

RECURSIVE insert_desc(_, _)
insert_desc(s, m) ==
    IF Len(s) = 0 THEN <<m>>
    ELSE IF order_desc(m, s[Len(s)])
    THEN Append(insert_desc(SubSeq(s, 1, Len(s) - 1), m), s[Len(s)])
    ELSE Append(s, m)

\* MeasurementsService.list_for_client, for the rows of one client
RECURSIVE list_for_client(_)
list_for_client(table) ==
    IF Len(table) = 0 THEN <<>>
    ELSE insert_desc(list_for_client(SubSeq(table, 1, Len(table) - 1)), table[Len(table)])

\* MeasurementsService.latest_for_client: the same ORDER BY with LIMIT 1
latest_for_client(table) ==
    IF Len(table) = 0 THEN None ELSE Some(list_for_client(table)[1])

\* [m for m in ms if (m.weight_kg or 0) > 0]
weight_bearing(ms) == SelectSeq(ms, LAMBDA m : ~IsNone(m.weight_kg) /\ Val(m.weight_kg) > 0)

\* sorted(ms, key=to_dt): ascending by date, and stable
RECURSIVE insert_by_date(_, _)
insert_by_date(s, m) ==
    IF Len(s) = 0 THEN <<m>>
    ELSE IF s[Len(s)].measured_at <= m.measured_at THEN Append(s, m)
    ELSE Append(insert_by_date(SubSeq(s, 1, Len(s) - 1), m), s[Len(s)])

RECURSIVE sorted_by_date(_)
sorted_by_date(ms) ==
    IF Len(ms) = 0 THEN <<>>
    ELSE insert_by_date(sorted_by_date(SubSeq(ms, 1, Len(ms) - 1)), ms[Len(ms)])

\* A bug the weight rule could have: the `or 1` left out.
days_between_raw(latest, prev) == latest.measured_at - prev.measured_at

\* (to_dt(latest) - to_dt(prev)).days or 1
days_between(latest, prev) ==
    IF latest.measured_at - prev.measured_at = 0 THEN 1
    ELSE latest.measured_at - prev.measured_at

\* A bug the weight rule could have: the rate per day, not per week.
rate_per_day(dw, days) == [n |-> dw, d |-> days]

\* rate_week = dw / days * 7.0, as the fraction n / d (d > 0)
rate_week(dw, days) == [n |-> dw * 7, d |-> days]

TooFewInsight == Insight("info", "Trend analizi icin en az 2 olcum gerekir", None)
NoAlertInsight == Insight("info", "Olcum trendinde belirgin risk/uyari bulunamadi", None)

\* Weight change
weight_rule(latest, prev, rate, th) ==
    IF falsy(latest.weight_kg) \/ falsy(prev.weight_kg) THEN <<>>
    ELSE IF float_raises(th_get(th, "weight_rate_warn", Whole(2))) THEN <<ValueError>>
    ELSE IF ge_float(Abs(rate.n), rate.d, th_get(th, "weight_rate_warn", Whole(2)))
    THEN <<Insight("warn", "Kilo degisimi hizli",
                   Some(Val(latest.weight_kg) - Val(prev.weight_kg)))>>
    ELSE IF float_raises(th_get(th, "weight_rate_info", Whole(1))) THEN <<ValueError>>
    ELSE IF ge_float(Abs(rate.n), rate.d, th_get(th, "weight_rate_info", Whole(1)))
    THEN <<Insight("info", "Kilo degisimi belirgin",
                   Some(Val(latest.weight_kg) - Val(prev.weight_kg)))>>
    ELSE <<>>

\* BMI category (if height available)
bmi_rule(b) ==
    IF IsNone(b) THEN <<>>
    ELSE IF Val(b).n >= 35 * Val(b).d THEN <<Insight("warn", "BMI yuksek", b)>>
    ELSE IF Val(b).n >= 30 * Val(b).d THEN <<Insight("warn", "Obezite araligi BMI", b)>>
    ELSE IF Val(b).n >= 25 * Val(b).d THEN <<Insight("info", "Fazla kilo araligi BMI", b)>>
    ELSE <<>>

\* Waist alerts
waist_rule(waist_cm, th) ==
    IF falsy(waist_cm) THEN <<>>
    ELSE IF float_raises(th_get(th, "waist_warn", Whole(110))) THEN <<ValueError>>
    ELSE IF ge_float(Val(waist_cm), 1, th_get(th, "waist_warn", Whole(110)))
    THEN <<Insight("warn", "Bel cevresi yuksek", waist_cm)>>
    ELSE IF float_raises(th_get(th, "waist_info", Whole(95))) THEN <<ValueError>>
    ELSE IF ge_float(Val(waist_cm), 1, th_get(th, "waist_info", Whole(95)))
    THEN <<Insight("info", "Bel cevresi izlenmeli", waist_cm)>>
    ELSE <<>>

\* w3 = [m.weight_kg for m in ms_sorted[-3:] if m.weight_kg]
last3_weights(ms_sorted) ==
    LET last3 == SubSeq(ms_sorted, Len(ms_sorted) - 2, Len(ms_sorted))
        kept  == SelectSeq(last3, LAMBDA m : ~falsy(m.weight_kg))
    IN  [i \in 1..Len(kept) |-> Val(kept[i].weight_kg)]

\* Trend direction over last 3 points (if available)
trend_rule(ms_sorted) ==
    IF Len(ms_sorted) < 3 THEN <<>>
    ELSE IF Len(last3_weights(ms_sorted)) # 3 THEN <<>>
    ELSE IF /\ last3_weights(ms_sorted)[3] > last3_weights(ms_sorted)[2]
            /\ last3_weights(ms_sorted)[2] > last3_weights(ms_sorted)[1]
    THEN <<Insight("warn", "Son 3 olcumde kilo artis trendi var", None)>>
    ELSE IF /\ last3_weights(ms_sorted)[3] < last3_weights(ms_sorted)[2]
            /\ last3_weights(ms_sorted)[2] < last3_weights(ms_sorted)[1]
    THEN <<Insight("info", "Son 3 olcumde kilo dusus trendi var", None)>>
    ELSE <<>>

\* out after the last rule; latest = ms_sorted[-1], prev = ms_sorted[-2]
measurement_rules(ms_sorted, latest, prev, th) ==
    weight_rule(latest, prev,
                rate_week((IF falsy(latest.weight_kg) \/ falsy(prev.weight_kg) THEN 0
                           ELSE Val(latest.weight_kg) - Val(prev.weight_kg)),
                          days_between(latest, prev)), th)
    \o bmi_rule(bmi(latest))
    \o waist_rule(latest.waist_cm, th)
    \o trend_rule(ms_sorted)

\* A bug the fallback could have: the reassuring insight added unconditionally.
measurement_fallback_always(out) == Append(out, NoAlertInsight)

\* if not out: out.append(Insight("info", ...))
measurement_fallback(out) == IF Len(out) = 0 THEN <<NoAlertInsight>> ELSE out

measurement_alerts_sorted(ms_sorted, th) ==
    returned(sort_by_severity(measurement_fallback(
        measurement_rules(ms_sorted, ms_sorted[Len(ms_sorted)],
                          ms_sorted[Len(ms_sorted) - 1], th))))

measurement_alerts_of(ms, th) ==
    IF Len(ms) < 2 THEN <<TooFewInsight>>
    ELSE measurement_alerts_sorted(sorted_by_date(ms), th)

\* ClinicalIntelligence.measurement_alerts, over the rows of the client
measurement_alerts(table, th) == measurement_alerts_of(weight_bearing(list_for_client(table)), th)

-----------------------------------------------------------------------------
(* Inputs of the insight engine: a list of lab rows, or the measurements of  *)
(* a client in the order they were inserted.                                 *)

MaxRows == 2
MaxMeas == 3

LabRowDict(test_name, result_value, status) ==
    [test_name |-> test_name, result_value |-> result_value, status |-> status]

LabRowSamples ==
    { LabRowDict("HbA1c", Some(Tenths(7, 1)), "high"),
      LabRowDict("Hb A1c", Some(Tenths(5, 9)), "borderline"),
      LabRowDict("HBA1C", Some(Tenths(5, 2)), "normal"),
      LabRowDict("HbA1c", None, "unknown"),
      LabRowDict("Glukoz", Some(Whole(130)), "high"),
      LabRowDict("Glukoz", Some(Whole(90)), "normal"),
      LabRowDict("Glukoz", Some(Whole(250)), "high"),
      LabRowDict("A?l{k Kan %ekeri", Some(Whole(105)), "borderline"),
      LabRowDict("LDL Kolesterol", Some(Whole(195)), "high"),
      LabRowDict("LDL Kolesterol", Some(Whole(135)), "borderline"),
      LabRowDict("HDL Kolesterol", Some(Whole(35)), "low"),
      LabRowDict("Trigliserid", Some(Whole(550)), "high"),
      LabRowDict("Total Kolesterol", Some(Whole(250)), "high"),
      LabRowDict("ALT", Some(Whole(80)), "high"),
      LabRowDict("GGT", None, "high"),
      LabRowDict("TSH", Some(Hundredths(0, 5)), "low"),
      LabRowDict("TSH", Some(Whole(5)), "high"),
      LabRowDict("Ferritin", Some(Whole(10)), "low"),
      LabRowDict("Vitamin D", Some(Whole(25)), "borderline"),
      LabRowDict("B12", Some(Whole(150)), "low"),
      LabRowDict("CRP", Some(Whole(12)), ""),
      LabRowDict("hs-CRP", Some(Whole(3)), "normal"),
      LabRowDict("eGFR", Some(Whole(50)), "low"),
      LabRowDict("Kreatinin", Some(Tenths(1, 5)), "high"),
      LabRowDict("Sodyum", Some(Whole(140)), "normal") }

LabRowLists == UNION { [1..n -> LabRowSamples] : n \in 0..MaxRows }

MeasDays == {0, 14, 28}

\* <<height_cm, weight_kg, waist_cm>>
MeasSamples ==
    { <<None, None, None>>,
      <<Some(170), Some(0), None>>,
      <<None, Some(Whole(70)), None>>,
      <<Some(170), Some(Whole(73)), None>>,
      <<Some(170), Some(Whole(70)), Some(Whole(100))>>,
      <<Some(150), Some(Whole(76)), Some(Whole(112))>> }

MeasPoints == MeasDays \X MeasSamples

\* the table after the inserts of h, one per tick of the clock
TableOf(h) ==
    [i \in 1..Len(h) |-> Measurement(h[i][1], i, h[i][2][1], h[i][2][2], h[i][2][3])]

MeasTables == { TableOf(h) : h \in UNION { [1..n -> MeasPoints] : n \in 0..MaxMeas } }

LabInsightsArgs ==
    { [lab_rows |-> rows, th |-> DEFAULT_CLINICAL_THRESHOLDS] : rows \in LabRowLists }

MeasurementAlertsArgs ==
    { [table |-> t, th |-> DEFAULT_CLINICAL_THRESHOLDS] : t \in MeasTables }

InitInsights ==
    /\ \/ call = "lab_insights" /\ arg \in LabInsightsArgs
       \/ call = "measurement_alerts" /\ arg \in MeasurementAlertsArgs
    /\ ret = Pending
    /\ pc = "start"
    /\ meta = None
    /\ engine = None

LabInsights ==
    /\ pc = "start"
    /\ call = "lab_insights"
    /\ ret' = lab_insights(arg.lab_rows, arg.th)
    /\ pc' = "done"
    /\ UNCHANGED <<call, arg, meta, engine>>

MeasurementAlerts ==
    /\ pc = "start"
    /\ call = "measurement_alerts"
    /\ ret' = measurement_alerts(arg.table, arg.th)
    /\ pc' = "done"
    /\ UNCHANGED <<call, arg, meta, engine>>

NextInsights == LabInsights \/ MeasurementAlerts

SpecInsights == InitInsights /\ [][NextInsights]_vars

(* C1: whatever the lab rows or the measurement history, the list returned   *)
(* by lab_insights or measurement_alerts is sorted by severity: no info      *)
(* insight precedes a warn or critical one, and no warn insight precedes a   *)
(* critical one.                                                             *)
SeveritySorted(out) ==
    \A i \in 1..Len(out) : \A j \in (i + 1)..Len(out) :
        /\ ~(out[i].severity = "info" /\ out[j].severity \in {"warn", "critical"})
        /\ ~(out[i].severity = "warn" /\ out[j].severity = "critical")

InsightsSortedBySeverity ==
    (pc = "done" /\ call \in {"lab_insights", "measurement_alerts"}) => SeveritySorted(ret)

\* a call whose rules filled the list out of order: the HbA1c rule runs first
\* and gave info, the LDL rule ran after it and gave critical
InsightsSortedBySeverityWitness ==
    /\ pc = "done"
    /\ call = "lab_insights"
    /\ Len(ret) = 2
    /\ ret[1].title = "LDL cok yuksek" /\ ret[1].severity = "critical"
    /\ ret[2].title = "HbA1c normal" /\ ret[2].severity = "info"
    /\ ~SeveritySorted(lab_rules(by_key_of(arg.lab_rows), arg.th))

-----------------------------------------------------------------------------
(* lab_insights on a single HbA1c row: the value sweeps 4.0 .. 7.9 in steps  *)
(* of 0.1, under the default thresholds and under overrides of them.         *)

\* records get_clinical_thresholds can return: the defaults, and the defaults
\* with some keys overridden by a save
ThresholdRecords ==
    { DEFAULT_CLINICAL_THRESHOLDS,
      [DEFAULT_CLINICAL_THRESHOLDS EXCEPT !.hba1c_warn = Num(Whole(6)), !.hba1c_critical = Num(Whole(7)),
                                          !.ldl_warn = Num(Whole(150)), !.crp_warn = Num(Whole(5)),
                                          !.weight_rate_info = Num(Tenths(0, 5)),
                                          !.weight_rate_warn = Num(Tenths(1, 5)),
                                          !.waist_info = Num(Whole(90)), !.waist_warn = Num(Whole(100))],
      [DEFAULT_CLINICAL_THRESHOLDS EXCEPT !.hba1c_warn = Num(Tenths(6, 5)), !.hba1c_critical = Num(Whole(6))] }

Hba1cNames == {"HbA1c", "Hb A1c", "HBA1C", " hb-a1c "}
Hba1cValues == { Tenths(i, t) : i \in 4..7, t \in 0..9 }

Hba1cOnlyArgs ==
    { [lab_rows |-> <<LabRowDict(name, Some(v), st)>>, th |-> th, v |-> v] :
        name \in Hba1cNames, v \in Hba1cValues, st \in {"normal", "high"},
        th \in ThresholdRecords }

InitHba1c ==
    /\ call = "lab_insights"
    /\ arg \in Hba1cOnlyArgs
    /\ ret = Pending
    /\ pc = "start"
    /\ meta = None
    /\ engine = None

NextHba1c == LabInsights

SpecHba1c == InitHba1c /\ [][NextHba1c]_vars

(* C12 -- HbA1c-only input: when the rows passed to lab_insights are a       *)
(* single HbA1c row with a numeric value v, the output is exactly one        *)
(* insight, it mentions HbA1c, and its severity is critical if               *)
(* v >= hba1c_critical, warn if hba1c_warn <= v < hba1c_critical, and info   *)
(* otherwise.                                                                *)
MentionsHbA1c(i) == Len(i.title) >= 5 /\ SubSeq(i.title, 1, 5) = "HbA1c"

Hba1cOnly ==
    (call = "lab_insights" /\ pc = "done")
        => /\ Len(ret) = 1
           /\ MentionsHbA1c(ret[1])
           /\ ret[1].severity =
                (IF arg.v >= arg.th.hba1c_critical[2] THEN "critical"
                 ELSE IF arg.th.hba1c_warn[2] <= arg.v /\ arg.v < arg.th.hba1c_critical[2]
                 THEN "warn"
                 ELSE "info")

\* a value exactly on the default critical threshold
Hba1cOnlyWitness ==
    /\ call = "lab_insights" /\ pc = "done"
    /\ arg.th = DEFAULT_CLINICAL_THRESHOLDS
    /\ arg.v = Tenths(6, 5)
    /\ Len(ret) = 1 /\ ret[1].severity = "critical" /\ ret[1].title = "HbA1c yuksek"

-----------------------------------------------------------------------------
(* measurement_alerts on histories that carry weights only (no height, no    *)
(* waist), under the default thresholds and under overrides of them.         *)

RateDays == {0, 7, 14}
RateWeights == {None, Some(Whole(70)), Some(Whole(71)), Some(Whole(72)),
                Some(Whole(73)), Some(Whole(74))}
RatePoints == { <<d, <<None, w, None>> >> : d \in RateDays, w \in RateWeights }

RateTables == { TableOf(h) : h \in UNION { [1..n -> RatePoints] : n \in 0..MaxMeas } }

WeightRateArgs == { [table |-> t, th |-> th] : t \in RateTables, th \in ThresholdRecords }

InitWeightRate ==
    /\ call = "measurement_alerts"
    /\ arg \in WeightRateArgs
    /\ ret = Pending
    /\ pc = "start"
    /\ meta = None
    /\ engine = None

NextWeightRate == MeasurementAlerts

SpecWeightRate == InitWeightRate /\ [][NextWeightRate]_vars

(* C13 -- Weekly weight rate: with at least two weight-bearing measurements  *)
(* measurement_alerts takes the two most recent by date, computes            *)
(* rate = (weight_latest - weight_prev) / days_between * 7 (a day difference *)
(* of 0 counted as 1), and emits a warn weight-change insight if             *)
(* |rate| >= weight_rate_warn, an info one if                                *)
(* weight_rate_info <= |rate| < weight_rate_warn, and none otherwise; two    *)
(* points 14 days apart with weights 70.0 and 73.0 (no height, no waist)     *)
(* give exactly one info alert under the default thresholds.                 *)
WeightBearing(t) == { i \in 1..Len(t) : ~IsNone(t[i].weight_kg) /\ Val(t[i].weight_kg) > 0 }

MostRecent(t, among) == { i \in among : \A j \in among : t[j].measured_at <= t[i].measured_at }

WeightInsights(out) ==
    SelectSeq(out, LAMBDA i : i.title \in {"Kilo degisimi hizli", "Kilo degisimi belirgin"})

RateAtLeast(dw, days, limit) == Abs(dw) * 7 >= limit * (IF days = 0 THEN 1 ELSE days)

WeightRateOutcome(out, dw, days, th) ==
    IF RateAtLeast(dw, days, th.weight_rate_warn[2])
    THEN Len(WeightInsights(out)) = 1 /\ WeightInsights(out)[1].severity = "warn"
    ELSE IF RateAtLeast(dw, days, th.weight_rate_info[2])
    THEN Len(WeightInsights(out)) = 1 /\ WeightInsights(out)[1].severity = "info"
    ELSE Len(WeightInsights(out)) = 0

SeventyThenSeventyThree ==
    TableOf(<< <<0, <<None, Some(Whole(70)), None>> >>, <<14, <<None, Some(Whole(73)), None>> >> >>)

WeeklyWeightRate ==
    (call = "measurement_alerts" /\ pc = "done" /\ Cardinality(WeightBearing(arg.table)) >= 2)
        => /\ \E l \in MostRecent(arg.table, WeightBearing(arg.table)) :
              \E p \in MostRecent(arg.table, WeightBearing(arg.table) \ {l}) :
                 WeightRateOutcome(ret,
                     Val(arg.table[l].weight_kg) - Val(arg.table[p].weight_kg),
                     arg.table[l].measured_at - arg.table[p].measured_at, arg.th)
           /\ (arg.table = SeventyThenSeventyThree /\ arg.th = DEFAULT_CLINICAL_THRESHOLDS)
                 => (Len(ret) = 1 /\ ret[1].severity = "info")

\* 70.0 then 73.0 kg 14 days later: +1.5 kg/week, one info alert
WeeklyWeightRateWitness ==
    /\ call = "measurement_alerts" /\ pc = "done"
    /\ arg.table = SeventyThenSeventyThree /\ arg.th = DEFAULT_CLINICAL_THRESHOLDS
    /\ Len(ret) = 1 /\ ret[1].severity = "info" /\ ret[1].title = "Kilo degisimi belirgin"
    /\ ret[1].value = Some(Whole(3))

-----------------------------------------------------------------------------
(* C14 -- measurement_alerts never returns an empty list: with fewer than 2  *)
(* weight-bearing points (weight > 0) the output is exactly the one info     *)
(* insight saying more data is needed; with 2 or more points the single      *)
(* reassuring info insight is present if and only if no weight-rate, BMI,    *)
(* waist or 3-point-trend rule triggered.  The rules that trigger are read   *)
(* off the history when the dates of the weight-bearing points differ.       *)
RuleTitles ==
    { "Kilo degisimi hizli", "Kilo degisimi belirgin", "BMI yuksek", "Obezite araligi BMI",
      "Fazla kilo araligi BMI", "Bel cevresi yuksek", "Bel cevresi izlenmeli",
      "Son 3 olcumde kilo artis trendi var", "Son 3 olcumde kilo dusus trendi var" }

DistinctDates(t, among) ==
    \A i \in among : \A j \in among : i # j => t[i].measured_at # t[j].measured_at

Newest(t, among) == CHOOSE i \in MostRecent(t, among) : TRUE

RateTriggered(t, l, p, th) ==
    \/ RateAtLeast(Val(t[l].weight_kg) - Val(t[p].weight_kg),
                   t[l].measured_at - t[p].measured_at, th.weight_rate_warn[2])
    \/ RateAtLeast(Val(t[l].weight_kg) - Val(t[p].weight_kg),
                   t[l].measured_at - t[p].measured_at, th.weight_rate_info[2])

BmiTriggered(m) ==
    /\ ~IsNone(m.height_cm) /\ Val(m.height_cm) > 0
    /\ Val(m.weight_kg) * 10000 >= 25 * Val(m.height_cm) * Val(m.height_cm) * Scale

WaistTriggered(m, th) ==
    /\ ~IsNone(m.waist_cm) /\ Val(m.waist_cm) # 0
    /\ (Val(m.waist_cm) >= th.waist_warn[2] \/ Val(m.waist_cm) >= th.waist_info[2])

TrendTriggered(t, l, p, rest) ==
    /\ rest # {}
    /\ LET q == Newest(t, rest)
           wl == Val(t[l].weight_kg)
           wp == Val(t[p].weight_kg)
           wq == Val(t[q].weight_kg)
       IN  (wl > wp /\ wp > wq) \/ (wl < wp /\ wp < wq)

AnyRuleTriggered(t, wb, th) ==
    LET l == Newest(t, wb)
        p == Newest(t, wb \ {l})
    IN  \/ RateTriggered(t, l, p, th)
        \/ BmiTriggered(t[l])
        \/ WaistTriggered(t[l], th)
        \/ TrendTriggered(t, l, p, wb \ {l, p})

Reassures(out) == \E i \in 1..Len(out) : out[i] = NoAlertInsight

NeverEmptyAlerts ==
    (call = "measurement_alerts" /\ pc = "done")
        => /\ Len(ret) >= 1
           /\ Cardinality(WeightBearing(arg.table)) < 2 => ret = <<TooFewInsight>>
           /\ Cardinality(WeightBearing(arg.table)) >= 2 =>
                /\ \A i \in 1..Len(ret) : ret[i] # TooFewInsight
                /\ Reassures(ret) => ret = <<NoAlertInsight>>
                /\ ~Reassures(ret) => \A i \in 1..Len(ret) : ret[i].title \in RuleTitles
                /\ DistinctDates(arg.table, WeightBearing(arg.table)) =>
                     (Reassures(ret) <=> ~AnyRuleTriggered(arg.table, WeightBearing(arg.table), arg.th))

\* three weight-bearing points on different days and no rule triggered
NeverEmptyAlertsWitness ==
    /\ call = "measurement_alerts" /\ pc = "done"
    /\ Cardinality(WeightBearing(arg.table)) = 3
    /\ DistinctDates(arg.table, WeightBearing(arg.table))
    /\ ret = <<NoAlertInsight>>

-----------------------------------------------------------------------------
(* C15 -- Neutral fallback in lab_insights: if the row list is non-empty and *)
(* no rule produced an insight the output is exactly one neutral info        *)
(* insight; if the row list is empty the output is empty; so the output is   *)
(* non-empty if and only if the input is, and the neutral insight never      *)
(* appears together with a rule-produced insight.                            *)

\* rows no rule acts on: an unknown test, an HbA1c row without a value, a
\* glucose outside 60..200, a low hs-CRP
QuietRows ==
    { LabRowDict("Sodyum", Some(Whole(140)), "normal"),
      LabRowDict("HbA1c", None, "unknown"),
      LabRowDict("Glukoz", Some(Whole(250)), "high"),
      LabRowDict("hs-CRP", Some(Whole(3)), "normal") }

AllQuiet(rows) == \A i \in 1..Len(rows) : rows[i] \in QuietRows

HasNeutral(out) == \E i \in 1..Len(out) : out[i] = NeutralInsight

LabNeutralFallback ==
    (call = "lab_insights" /\ pc = "done")
        => /\ Len(arg.lab_rows) = 0 => ret = <<>>
           /\ (Len(ret) > 0) <=> (Len(arg.lab_rows) > 0)
           /\ HasNeutral(ret) => ret = <<NeutralInsight>>
           /\ (Len(arg.lab_rows) > 0 /\ AllQuiet(arg.lab_rows)) => ret = <<NeutralInsight>>

\* two rows, neither of which any rule acts on
LabNeutralFallbackWitness ==
    /\ call = "lab_insights" /\ pc = "done"
    /\ Len(arg.lab_rows) = 2 /\ AllQuiet(arg.lab_rows)
    /\ arg.lab_rows[1].test_name = "Glukoz" /\ arg.lab_rows[2].test_name = "HbA1c"
    /\ ret = <<NeutralInsight>>

-----------------------------------------------------------------------------
(* SettingsService: the clinical thresholds stored in app_meta under         *)
(* clinical_thresholds_v1.  A dict is a function from its keys to values     *)
(* (Num, NonNumeric, NaN, Null); the stored text is the JSON object          *)
(* json.dumps wrote, which json.loads reads back value for value, or text    *)
(* that is not JSON.                                                         *)

Null == <<"null", 0>>

json_dumps(d) == <<"object", d>>
Garbage == <<"garbage", <<>> >>

\* try: data = json.loads(raw) or {}  except Exception: data = {}
json_loads_or_empty(raw) == IF raw[1] = "object" THEN raw[2] ELSE <<>>

\* A bug the merge could have: the 'if v is not None' filter left out.
merged_with_nulls(data) ==
    [k \in DOMAIN DEFAULT_CLINICAL_THRESHOLDS \cup DOMAIN data |->
        IF k \in DOMAIN data THEN data[k] ELSE DEFAULT_CLINICAL_THRESHOLDS[k]]

\* merged = dict(DEFAULT_CLINICAL_THRESHOLDS)
\* merged.update({k: v for k, v in data.items() if v is not None})
merged(data) ==
    [k \in DOMAIN DEFAULT_CLINICAL_THRESHOLDS \cup {j \in DOMAIN data : data[j] # Null} |->
        IF k \in DOMAIN data /\ data[k] # Null THEN data[k] ELSE DEFAULT_CLINICAL_THRESHOLDS[k]]

\* SettingsService.get_clinical_thresholds, m the stored text (Optional)
get_clinical_thresholds(m) ==
    merged(IF IsNone(m) THEN <<>> ELSE json_loads_or_empty(Val(m)))

\* cleaned: only the keys of DEFAULT_CLINICAL_THRESHOLDS
cleaned(thresholds) ==
    [k \in DOMAIN thresholds \cap DOMAIN DEFAULT_CLINICAL_THRESHOLDS |-> thresholds[k]]

\* SettingsService.save_clinical_thresholds: the text it stores
save_clinical_thresholds(thresholds) == Some(json_dumps(cleaned(thresholds)))

\* dicts a caller passes to save_clinical_thresholds: every dict over some of
\* three keys (one of them unknown to the defaults), and some others
SaveKeys == {"hba1c_critical", "waist_warn", "unknown_key"}
SaveValues == {Null, NonNumeric, Num(Whole(7))}

SaveDicts ==
    UNION { [ks -> SaveValues] : ks \in SUBSET SaveKeys } \cup
    { <<>>,
      ("hba1c_critical" :> Num(Whole(7))),
      ("hba1c_critical" :> NonNumeric),
      ("ldl_warn" :> NaN),
      ("weight_rate_info" :> NonNumeric) @@ ("hba1c_warn" :> Num(Whole(6))),
      ("waist_warn" :> Null) @@ ("weight_rate_warn" :> Num(Tenths(1, 5))),
      ("unknown_key" :> Num(Whole(1))) @@ ("crp_warn" :> Num(Whole(5))),
      [DEFAULT_CLINICAL_THRESHOLDS EXCEPT !.waist_info = Num(Whole(90)),
                                          !.ldl_critical = Num(Whole(180))] }

InitSettings ==
    /\ call = "none"
    /\ arg = None
    /\ ret = Pending
    /\ pc = "start"
    /\ meta \in {None, Some(Garbage)}
    /\ engine = None

\* arg keeps the dict of the most recent save
SaveClinicalThresholds ==
    /\ \E t \in SaveDicts :
        /\ meta' = save_clinical_thresholds(t)
        /\ arg' = Some(t)
    /\ call' = "save_clinical_thresholds"
    /\ ret' = None
    /\ pc' = "done"
    /\ UNCHANGED engine

GetClinicalThresholds ==
    /\ call' = "get_clinical_thresholds"
    /\ ret' = get_clinical_thresholds(meta)
    /\ pc' = "done"
    /\ UNCHANGED <<arg, meta, engine>>

NextSettings == SaveClinicalThresholds \/ GetClinicalThresholds

SpecSettings == InitSettings /\ [][NextSettings]_vars

(* C17 -- Threshold overrides: after any sequence of save_clinical_thresholds *)
(* calls, get_clinical_thresholds returns a record with every documented key, *)
(* each with the value of the most recent save if that save gave a non-null   *)
(* value for it and the documented default otherwise; keys unknown to the     *)
(* defaults table are never stored by save; with nothing stored or an         *)
(* unparseable stored value the defaults are returned.                        *)
DocumentedKeys ==
    { "weight_rate_info", "weight_rate_warn", "waist_info", "waist_warn", "crp_warn",
      "hba1c_warn", "hba1c_critical", "ldl_warn", "ldl_critical" }

DocumentedDefault(k) ==
    CASE k = "weight_rate_info" -> Num(Whole(1))
      [] k = "weight_rate_warn" -> Num(Whole(2))
      [] k = "waist_info"       -> Num(Whole(95))
      [] k = "waist_warn"       -> Num(Whole(110))
      [] k = "crp_warn"         -> Num(Whole(10))
      [] k = "hba1c_warn"       -> Num(Tenths(5, 7))
      [] k = "hba1c_critical"   -> Num(Tenths(6, 5))
      [] k = "ldl_warn"         -> Num(Whole(160))
      [] k = "ldl_critical"     -> Num(Whole(190))

ThresholdOverrides ==
    /\ (call = "get_clinical_thresholds" /\ pc = "done") =>
          /\ DOMAIN ret = DocumentedKeys
          /\ \A k \in DocumentedKeys :
                ret[k] = (IF ~IsNone(arg) /\ k \in DOMAIN Val(arg) /\ Val(arg)[k] # Null
                          THEN Val(arg)[k] ELSE DocumentedDefault(k))
    /\ (~IsNone(meta) /\ Val(meta)[1] = "object") => DOMAIN Val(meta)[2] \subseteq DocumentedKeys

\* read back after a save that gave a null, an override and left the rest out
ThresholdOverridesWitness ==
    /\ call = "get_clinical_thresholds" /\ pc = "done"
    /\ arg = Some(("waist_warn" :> Null) @@ ("weight_rate_warn" :> Num(Tenths(1, 5))))
    /\ ret.waist_warn = Num(Whole(110))
    /\ ret.weight_rate_warn = Num(Tenths(1, 5))
    /\ ret.hba1c_critical = Num(Tenths(6, 5))

-----------------------------------------------------------------------------
(* The engine and the settings together: thresholds are saved, an engine is  *)
(* constructed (ClinicalIntelligence.__init__ reads the thresholds once) and *)
(* its lab_insights and measurement_alerts are called.                       *)

EngineRows ==
    { <<LabRowDict("HbA1c", Some(Whole(5)), "normal")>>,
      <<LabRowDict("LDL Kolesterol", Some(Whole(170)), "high")>>,
      <<LabRowDict("Sodyum", Some(Whole(140)), "normal")>> }

EngineTables ==
    { <<>>,
      SeventyThenSeventyThree,
      TableOf(<< <<0, <<None, Some(Whole(70)), None>> >>,
                 <<14, <<None, Some(Whole(70)), Some(Whole(100))>> >> >>) }

\* ClinicalIntelligence.__init__: self.th = self.settings.get_clinical_thresholds()
ClinicalIntelligence(m) == [th |-> get_clinical_thresholds(m)]

Construct ==
    /\ engine' = Some(ClinicalIntelligence(meta))
    /\ call' = "ClinicalIntelligence"
    /\ arg' = None
    /\ ret' = None
    /\ pc' = "done"
    /\ UNCHANGED meta

EngineLabInsights ==
    /\ ~IsNone(engine)
    /\ \E rows \in EngineRows :
        /\ arg' = [lab_rows |-> rows, th |-> Val(engine).th]
        /\ ret' = lab_insights(rows, Val(engine).th)
    /\ call' = "lab_insights"
    /\ pc' = "done"
    /\ UNCHANGED <<meta, engine>>

EngineMeasurementAlerts ==
    /\ ~IsNone(engine)
    /\ \E t \in EngineTables :
        /\ arg' = [table |-> t, th |-> Val(engine).th]
        /\ ret' = measurement_alerts(t, Val(engine).th)
    /\ call' = "measurement_alerts"
    /\ pc' = "done"
    /\ UNCHANGED <<meta, engine>>

NextThresholds ==
    \/ SaveClinicalThresholds
    \/ GetClinicalThresholds
    \/ Construct
    \/ EngineLabInsights
    \/ EngineMeasurementAlerts

SpecThresholds == InitSettings /\ [][NextThresholds]_vars

(* C16 -- Invalid thresholds fail fast: a thresholds record with a           *)
(* non-numeric or non-finite value is rejected when the thresholds are       *)
(* loaded or the engine is constructed, so no constructed engine holds such  *)
(* a value and lab_insights and measurement_alerts never raise because of a  *)
(* bad threshold while evaluating rules.                                     *)
ThresholdsFailFast ==
    /\ ~IsNone(engine) =>
          \A k \in DOMAIN Val(engine).th : Val(engine).th[k][1] = "number"
    /\ (call \in {"lab_insights", "measurement_alerts"} /\ pc = "done") => ret # <<ValueError>>

-----------------------------------------------------------------------------
(* _extract_row_from_line: which reference-shaped substring is taken, and    *)
(* when a line is rejected.                                                  *)

\* raw, as the extractor computes it from the line of the call
RawLine == sub_spaces(strip(IF IsNone(arg.line) THEN "" ELSE Val(arg.line)))

MaxOf(S) == CHOOSE x \in S : \A y \in S : y <= x

StartsOf(rx, raw) == { m[1] : m \in finditer_all(rx, raw, 1) }

\* The start of the reference-shaped substring that starts furthest right.
RightmostStart(raw) == MaxOf({ m[1] : m \in ReferenceShaped(raw) })

\* C19 -- Reference selection: among all reference-shaped substrings of the
\* line (range, '<NUM', '>NUM') the one taken as the reference fragment is the
\* one that starts furthest to the right, whatever its shape; so the ref_text
\* of a returned row runs from that start to the end of the line.
ReferenceIsRightmost ==
    (call = "_extract_row_from_line" /\ pc = "done" /\ ~IsNone(ret))
        => Val(ret).ref_text =
              strip(SubSeq(RawLine, RightmostStart(RawLine), Len(RawLine)))

\* The start of the match the scan ends on: the last '>NUM' when there is
\* one, else the last '<NUM', else the last range.
ChosenStart(raw) ==
    IF StartsOf("gt", raw) # {} THEN MaxOf(StartsOf("gt", raw))
    ELSE IF StartsOf("lt", raw) # {} THEN MaxOf(StartsOf("lt", raw))
    ELSE MaxOf(StartsOf("range", raw))

\* The tokens left of the chosen reference, and the numeric ones among them.
LeftTokens(raw) == split(strip(SubSeq(raw, 1, ChosenStart(raw) - 1)))

NumericTokens(tokens) == { i \in 1..Len(tokens) : _RE_NUM_fullmatch(tokens[i]) }

\* The tokens before the value (the right-most numeric token), joined.
RecoveredName(tokens) == strip(join(SubSeq(tokens, 1, MaxOf(NumericTokens(tokens)) - 1)))

TooShort(raw) == Len(raw) < 8
NoReference(raw) == ReferenceShaped(raw) = {}
NoNumericToken(raw) == NumericTokens(LeftTokens(raw)) = {}
NameTooShort(raw) == Len(RecoveredName(LeftTokens(raw))) < 2

Rejected(raw) ==
    TooShort(raw) \/ NoReference(raw) \/ NoNumericToken(raw) \/ NameTooShort(raw)

\* C20 -- Extractor acceptance conditions: _extract_row_from_line returns
\* nothing if and only if the collapsed, trimmed line is shorter than 8
\* characters, or it has no reference-shaped substring, or the part left of
\* the chosen reference has no pure-numeric token, or the recovered name has
\* fewer than 2 characters; in every other case it returns exactly one row.
AcceptanceConditions ==
    (call = "_extract_row_from_line" /\ pc = "done")
        => /\ IsNone(ret) <=> Rejected(RawLine)
           /\ ~Rejected(RawLine) => (Len(ret) = 1 /\ IsLabRow(Val(ret)))

\* A line long enough, with a reference and a numeric token left of it, has
\* been rejected because its name is the single letter K.
AcceptanceConditionsWitness ==
    /\ call = "_extract_row_from_line" /\ pc = "done"
    /\ arg.kind = "well_formed" /\ arg.name = <<"K">>
    /\ ~TooShort(RawLine) /\ ~NoReference(RawLine) /\ ~NoNumericToken(RawLine)
    /\ NameTooShort(RawLine)
    /\ IsNone(ret)

-----------------------------------------------------------------------------
(* Concurrent calls.  Several threads call parse_enabiz_text,                *)
(* classify_value, norm_key, lab_insights and measurement_alerts with no     *)
(* locking.  call, arg and pc are per thread; ret holds the frame of each    *)
(* call (its local variables and, at the end, what it returns); engine holds *)
(* the engine instances, which the calls share.  A step of a call is the     *)
(* code between two reads of shared state or two updates of a local list.    *)

NumThreads == 2

Threads == 1..NumThreads

\* The line boundaries of str.splitlines() that the texts use.
LineBreaks == {"\n", "\r", "\f"}

RECURSIVE FindBreak(_, _)
FindBreak(s, i) ==
    IF i > Len(s) THEN 0 ELSE IF Ch(s, i) \in LineBreaks THEN i ELSE FindBreak(s, i + 1)

\* the length of the boundary at i: "\r\n" is one boundary
BreakLen(s, i) == IF Ch(s, i) = "\r" /\ i < Len(s) /\ Ch(s, i + 1) = "\n" THEN 2 ELSE 1

\* text.splitlines(): no line for the empty string or after a final boundary
RECURSIVE splitlines(_)
splitlines(s) ==
    LET i == FindBreak(s, 1)
    IN  IF Len(s) = 0 THEN <<>>
        ELSE IF i = 0 THEN <<s>>
        ELSE <<SubSeq(s, 1, i - 1)>> \o splitlines(SubSeq(s, i + BreakLen(s, i), Len(s)))

\* A bug the loop could have: a row equal to one already collected is dropped.
append_row_dedup(rows, r) ==
    IF IsNone(r) \/ (\E i \in 1..Len(rows) : rows[i] = Val(r)) THEN rows
    ELSE Append(rows, Val(r))

\* r = _extract_row_from_line(line); if r: rows.append(r)
append_row(rows, r) == IF IsNone(r) THEN rows ELSE Append(rows, Val(r))

\* for line in lines: ... -- the rows after the loop
RECURSIVE parse_lines(_, _)
parse_lines(lines, rows) ==
    IF Len(lines) = 0 THEN rows
    ELSE parse_lines(Tail(lines), append_row(rows, _extract_row_from_line(Some(Head(lines)))))

\* text is Optional[str]; (text or "")
parse_enabiz_text(text) ==
    parse_lines(splitlines(IF IsNone(text) THEN "" ELSE Val(text)), <<>>)

\* The local variables of a call: lines and rows of parse_enabiz_text, by_key
\* and out of lab_insights, ms and out of measurement_alerts, the str that
\* classify_value and norm_key return.  overlapped is not a variable of the
\* program: it records that, when this call returned, another call had
\* run a part of its body and had not returned yet.
NewFrame ==
    [lines |-> <<>>, rows |-> <<>>, by_key |-> <<>>, ms |-> <<>>, out |-> <<>>,
     str |-> "", overlapped |-> FALSE]

\* A bug the calls could have: the local lists are kept in one place that all
\* calls share (a module-level or instance-level list).
frame_shared(t) == 1

\* Each call has its own locals: the frame of the call of thread t.
frame_of(t) == t

\* The engine instances: two engines over one connection, constructed under
\* different saved thresholds.  conn holds the measurements of two clients.
EngineInstances ==
    << [th |-> DEFAULT_CLINICAL_THRESHOLDS,
        conn |-> [c1 |-> SeventyThenSeventyThree,
                  c2 |-> TableOf(<< <<0, <<None, Some(Whole(70)), None>> >>,
                                    <<14, <<None, Some(Whole(70)), Some(Whole(100))>> >> >>)]],
       [th |-> [DEFAULT_CLINICAL_THRESHOLDS EXCEPT !.ldl_warn = Num(Whole(180)),
                                                   !.waist_warn = Num(Whole(95)),
                                                   !.weight_rate_warn = Num(Whole(2))],
        conn |-> [c1 |-> SeventyThenSeventyThree,
                  c2 |-> TableOf(<< <<0, <<None, Some(Whole(70)), None>> >>,
                                    <<14, <<None, Some(Whole(70)), Some(Whole(100))>> >> >>)]] >>

ConcurrentTexts ==
    { None, Some("Glukoz 148 mg/dL 70 - 100\r\nHasta Adi Soyadi\nHDL Kolesterol 28 mg/dL >40\n") }

ConcurrentRows ==
    { <<LabRowDict("LDL Kolesterol", Some(Whole(170)), "high")>>,
      <<LabRowDict("HbA1c", Some(Whole(7)), "high"), LabRowDict("Sodyum", Some(Whole(140)), "normal")>> }

ConcurrentArgs ==
    { [call |-> "parse_enabiz_text", text |-> x] : x \in ConcurrentTexts }
    \cup { [call |-> "classify_value", value |-> Some(Whole(148)),
            ref |-> RefRange("range", Some(Whole(70)), Some(Whole(100)), ""), ratio |-> DefaultRatio] }
    \cup { [call |-> "norm_key", name |-> Some("HDL Kolesterol")] }
    \cup { [call |-> "lab_insights", self |-> e, lab_rows |-> r] :
            e \in DOMAIN EngineInstances, r \in ConcurrentRows }
    \cup { [call |-> "measurement_alerts", self |-> e, client_id |-> c] :
            e \in DOMAIN EngineInstances, c \in {"c1", "c2"} }

InitConcurrent ==
    /\ call = [t \in Threads |-> "none"]
    /\ arg = [t \in Threads |-> None]
    /\ pc = [t \in Threads |-> "idle"]
    /\ ret = [t \in Threads |-> NewFrame]
    /\ meta = None
    /\ engine = EngineInstances

InProgress(t) == pc[t] \notin {"idle", "start", "done"}

\* the frames after a step of thread t that leaves f in its frame
Stepped(t, f) == [ret EXCEPT ![frame_of(t)] = f]

\* the frames after the step of thread t that returns, leaving f in its frame
SteppedOut(t, f) ==
    Stepped(t, [f EXCEPT !.overlapped = \E u \in Threads \ {t} : InProgress(u)])

Frame(t) == ret[frame_of(t)]

\* Thread t calls one of the five entry points.
ThreadInvoke(t) ==
    /\ pc[t] = "idle"
    /\ \E a \in ConcurrentArgs :
        /\ call' = [call EXCEPT ![t] = a.call]
        /\ arg' = [arg EXCEPT ![t] = a]
    /\ pc' = [pc EXCEPT ![t] = "start"]
    /\ ret' = Stepped(t, NewFrame)
    /\ UNCHANGED <<meta, engine>>

\* rows = []; lines = (text or "").splitlines()
ThreadParseStart(t) ==
    /\ call[t] = "parse_enabiz_text" /\ pc[t] = "start"
    /\ ret' = Stepped(t, [Frame(t) EXCEPT
                    !.rows = <<>>,
                    !.lines = splitlines(IF IsNone(arg[t].text) THEN "" ELSE Val(arg[t].text))])
    /\ pc' = [pc EXCEPT ![t] = "loop"]
    /\ UNCHANGED <<call, arg, meta, engine>>

\* one turn of the loop
ThreadParseLine(t) ==
    /\ call[t] = "parse_enabiz_text" /\ pc[t] = "loop"
    /\ Len(Frame(t).lines) > 0
    /\ ret' = Stepped(t, [Frame(t) EXCEPT
                    !.rows = append_row(@, _extract_row_from_line(Some(Head(Frame(t).lines)))),
                    !.lines = Tail(@)])
    /\ UNCHANGED <<call, arg, pc, meta, engine>>

\* return rows
ThreadParseReturn(t) ==
    /\ call[t] = "parse_enabiz_text" /\ pc[t] = "loop"
    /\ Len(Frame(t).lines) = 0
    /\ ret' = SteppedOut(t, Frame(t))
    /\ pc' = [pc EXCEPT ![t] = "done"]
    /\ UNCHANGED <<call, arg, meta, engine>>

ThreadClassify(t) ==
    /\ call[t] = "classify_value" /\ pc[t] = "start"
    /\ ret' = SteppedOut(t, [Frame(t) EXCEPT
                    !.str = classify_value(arg[t].value, arg[t].ref, arg[t].ratio)])
    /\ pc' = [pc EXCEPT ![t] = "done"]
    /\ UNCHANGED <<call, arg, meta, engine>>

ThreadNormKey(t) ==
    /\ call[t] = "norm_key" /\ pc[t] = "start"
    /\ ret' = SteppedOut(t, [Frame(t) EXCEPT !.str = norm_key(arg[t].name)])
    /\ pc' = [pc EXCEPT ![t] = "done"]
    /\ UNCHANGED <<call, arg, meta, engine>>

\* out = []; by_key = {...}
ThreadLabByKey(t) ==
    /\ call[t] = "lab_insights" /\ pc[t] = "start"
    /\ ret' = Stepped(t, [Frame(t) EXCEPT !.out = <<>>, !.by_key = by_key_of(arg[t].lab_rows)])
    /\ pc' = [pc EXCEPT ![t] = "rules"]
    /\ UNCHANGED <<call, arg, meta, engine>>

\* the rules, which read self.th and add to out
ThreadLabRules(t) ==
    /\ call[t] = "lab_insights" /\ pc[t] = "rules"
    /\ ret' = Stepped(t, [Frame(t) EXCEPT
                    !.out = @ \o lab_rules(Frame(t).by_key, engine[arg[t].self].th)])
    /\ pc' = [pc EXCEPT ![t] = "sort"]
    /\ UNCHANGED <<call, arg, meta, engine>>

\* the fallback, out.sort(...) and return out
ThreadLabReturn(t) ==
    /\ call[t] = "lab_insights" /\ pc[t] = "sort"
    /\ ret' = SteppedOut(t, [Frame(t) EXCEPT
                    !.out = returned(sort_by_severity(lab_fallback(@, arg[t].lab_rows)))])
    /\ pc' = [pc EXCEPT ![t] = "done"]
    /\ UNCHANGED <<call, arg, meta, engine>>

\* ms = self.meas.list_for_client(client_id), a SELECT on the connection,
\* and the filter on weight_kg
ThreadMeasSelect(t) ==
    /\ call[t] = "measurement_alerts" /\ pc[t] = "start"
    /\ ret' = Stepped(t, [Frame(t) EXCEPT
                    !.ms = weight_bearing(list_for_client(engine[arg[t].self].conn[arg[t].client_id]))])
    /\ pc' = [pc EXCEPT ![t] = "rules"]
    /\ UNCHANGED <<call, arg, meta, engine>>

\* the rules, which read self.th, the fallback, the sort and return out
ThreadMeasReturn(t) ==
    /\ call[t] = "measurement_alerts" /\ pc[t] = "rules"
    /\ ret' = SteppedOut(t, [Frame(t) EXCEPT
                    !.out = measurement_alerts_of(Frame(t).ms, engine[arg[t].self].th)])
    /\ pc' = [pc EXCEPT ![t] = "done"]
    /\ UNCHANGED <<call, arg, meta, engine>>

NextConcurrent ==
    \/ \E t \in Threads : ThreadInvoke(t)
    \/ \E t \in Threads : ThreadParseStart(t)
    \/ \E t \in Threads : ThreadParseLine(t)
    \/ \E t \in Threads : ThreadParseReturn(t)
    \/ \E t \in Threads : ThreadClassify(t)
    \/ \E t \in Threads : ThreadNormKey(t)
    \/ \E t \in Threads : ThreadLabByKey(t)
    \/ \E t \in Threads : ThreadLabRules(t)
    \/ \E t \in Threads : ThreadLabReturn(t)
    \/ \E t \in Threads : ThreadMeasSelect(t)
    \/ \E t \in Threads : ThreadMeasReturn(t)

SpecConcurrent == InitConcurrent /\ [][NextConcurrent]_vars

\* What the finished call of thread t has returned.
Returned(t) ==
    CASE call[t] = "parse_enabiz_text" -> Frame(t).rows
      [] call[t] \in {"classify_value", "norm_key"} -> Frame(t).str
      [] call[t] \in {"lab_insights", "measurement_alerts"} -> Frame(t).out

\* What the call of thread t returns when it runs alone on its arguments.
Alone(t) ==
    CASE call[t] = "parse_enabiz_text" -> parse_enabiz_text(arg[t].text)
      [] call[t] = "classify_value" -> classify_value(arg[t].value, arg[t].ref, arg[t].ratio)
      [] call[t] = "norm_key" -> norm_key(arg[t].name)
      [] call[t] = "lab_insights" ->
            lab_insights(arg[t].lab_rows, EngineInstances[arg[t].self].th)
      [] call[t] = "measurement_alerts" ->
            measurement_alerts(EngineInstances[arg[t].self].conn[arg[t].client_id],
                               EngineInstances[arg[t].self].th)

\* C18 -- Concurrent calls do not interfere: when the five entry points are
\* called from several threads with no locking, on the same engine or on
\* different ones, every finished call has returned what it returns when run
\* alone on its arguments, and no step of a call changes the engines, the
\* connection's data or the stored settings that the other calls read.
ConcurrentCallsDoNotInterfere ==
    /\ [](\A t \in Threads : pc[t] = "done" => Returned(t) = Alone(t))
    /\ [][engine' = engine /\ meta' = meta]_vars

\* Two calls of lab_insights on the same engine with different rows have both
\* returned, each its own result; the first returned while the second was
\* in the middle of its body.
ConcurrentCallsDoNotInterfereWitness ==
    /\ pc[1] = "done" /\ pc[2] = "done"
    /\ call[1] = "lab_insights" /\ call[2] = "lab_insights"
    /\ arg[1].self = arg[2].self /\ arg[1].lab_rows # arg[2].lab_rows
    /\ ret[1].overlapped
    /\ Returned(1) = Alone(1) /\ Returned(2) = Alone(2)
    /\ Returned(1) # Returned(2)

-----------------------------------------------------------------------------
(* parse_enabiz_text: inputs.  Texts put together from lines (result lines,  *)
(* a header, an empty line) and a line boundary.                             *)

MaxLines == 3

ReportLines ==
    { "Glukoz 148 mg/dL 70 - 100", "HDL Kolesterol 28 mg/dL >40", "CRP 3 mg/L <5",
      "Hasta Adi Soyadi", "" }

ReportBreaks == { "\n", "\r\n", "\r" }

ParseArgs ==
    { [lines |-> l, text |-> Some(JoinWith(l, b))] :
        l \in UNION { [1..n -> ReportLines] : n \in 0..MaxLines }, b \in ReportBreaks }
    \cup { [lines |-> <<>>, text |-> None] }

InitParse ==
    /\ call = "parse_enabiz_text"
    /\ arg \in ParseArgs
    /\ ret = Pending
    /\ pc = "start"
    /\ meta = None
    /\ engine = None

ParseEnabizText ==
    /\ call = "parse_enabiz_text"
    /\ pc = "start"
    /\ ret' = parse_enabiz_text(arg.text)
    /\ pc' = "done"
    /\ UNCHANGED <<call, arg, meta, engine>>

NextParse == ParseEnabizText

SpecParse == InitParse /\ [][NextParse]_vars

\* The lines of the text that the extractor accepts, in the order of the text.
AcceptedLines ==
    SelectSeq(arg.lines, LAMBDA l : ~IsNone(_extract_row_from_line(Some(l))))

\* C21 -- parse_enabiz_text returns exactly the rows extracted from the lines
\* of the text, in line order, one row per accepted line and no
\* deduplication; a text with no extractable row (the empty string included)
\* gives the empty list and no error.
ParseKeepsEveryRow ==
    (call = "parse_enabiz_text" /\ pc = "done")
        => /\ Len(ret) = Len(AcceptedLines)
           /\ \A i \in 1..Len(ret) :
                ret[i] = Val(_extract_row_from_line(Some(AcceptedLines[i])))

\* A text with the same result line twice, and a header between, has given
\* two equal rows.
ParseKeepsEveryRowWitness ==
    /\ call = "parse_enabiz_text" /\ pc = "done"
    /\ arg.lines = <<"CRP 3 mg/L <5", "Hasta Adi Soyadi", "CRP 3 mg/L <5">>
    /\ Len(ret) = 2 /\ ret[1] = ret[2] /\ ret[1].test_name = "CRP"

-----------------------------------------------------------------------------
(* lab_insights on rows that share a key: the lookup is built, then the      *)
(* rules run on it.                                                          *)

DuplicateRows ==
    { LabRowDict("CRP", None, "high"),
      LabRowDict("C-Reaktif Protein", Some(Whole(3)), "normal"),
      LabRowDict("crp", Some(Whole(12)), "high"),
      LabRowDict("HbA1c", None, ""),
      LabRowDict("Hb A1c", Some(Whole(7)), "high"),
      LabRowDict("HBA1C", Some(Whole(5)), "normal") }

DuplicateArgs ==
    { [lab_rows |-> rows, th |-> DEFAULT_CLINICAL_THRESHOLDS] :
        rows \in UNION { [1..n -> DuplicateRows] : n \in 0..(MaxRows + 1) } }

InitDuplicates ==
    /\ call = "lab_insights"
    /\ arg \in DuplicateArgs
    /\ ret = Pending
    /\ pc = "start"
    /\ meta = None
    /\ engine = None

\* by_key = {}; for r in lab_rows: ...
LabInsightsByKey ==
    /\ call = "lab_insights"
    /\ pc = "start"
    /\ ret' = by_key_of(arg.lab_rows)
    /\ pc' = "by_key"
    /\ UNCHANGED <<call, arg, meta, engine>>

\* the rules on by_key, the fallback, the sort and return out
LabInsightsRules ==
    /\ call = "lab_insights"
    /\ pc = "by_key"
    /\ ret' = returned(sort_by_severity(lab_fallback(lab_rules(ret, arg.th), arg.lab_rows)))
    /\ pc' = "done"
    /\ UNCHANGED <<call, arg, meta, engine>>

NextDuplicates == LabInsightsByKey \/ LabInsightsRules

SpecDuplicates == InitDuplicates /\ [][NextDuplicates]_vars

KeyOfRow(r) == norm_key(Some(r.test_name))

MinOf(S) == CHOOSE x \in S : \A y \in S : x <= y

RowsOfKey(rows, k) == { i \in 1..Len(rows) : KeyOfRow(rows[i]) = k }

NumericRowsOfKey(rows, k) == { i \in RowsOfKey(rows, k) : ~IsNone(rows[i].result_value) }

\* The first row of key k with a value, or the first row of key k.
PreferredRow(rows, k) ==
    IF NumericRowsOfKey(rows, k) # {} THEN rows[MinOf(NumericRowsOfKey(rows, k))]
    ELSE rows[MinOf(RowsOfKey(rows, k))]

\* The preferred row of every key, in the order the keys first occur.
PreferredRows(rows) ==
    SelectSeq([i \in 1..Len(rows) |->
                  IF i = MinOf(RowsOfKey(rows, KeyOfRow(rows[i])))
                  THEN PreferredRow(rows, KeyOfRow(rows[i])) ELSE None],
              LAMBDA r : r # None)

\* C22 -- Duplicate resolution in lab_insights: when several rows normalize to
\* the same key, the row the rules use for the key is the first row in input
\* order with a non-null value, or the first row of the key if none has a
\* value; a later numeric duplicate never replaces an earlier numeric row.
\* So the lookup holds that row for every key, and the insights are those of
\* the preferred rows alone.
DuplicatesPreferNumeric ==
    /\ (call = "lab_insights" /\ pc = "by_key") =>
          /\ DOMAIN ret = { KeyOfRow(arg.lab_rows[i]) : i \in 1..Len(arg.lab_rows) }
          /\ \A k \in DOMAIN ret : ret[k] = PreferredRow(arg.lab_rows, k)
    /\ (call = "lab_insights" /\ pc = "done") =>
          ret = lab_insights(PreferredRows(arg.lab_rows), arg.th)

\* Of three CRP rows (no value, 3, 12) the rules have used the one with 3:
\* CRP 3 with status normal gives no CRP insight, CRP 12 would give one.
DuplicatesPreferNumericWitness ==
    /\ call = "lab_insights" /\ pc = "done"
    /\ arg.lab_rows = << LabRowDict("CRP", None, "high"),
                         LabRowDict("C-Reaktif Protein", Some(Whole(3)), "normal"),
                         LabRowDict("crp", Some(Whole(12)), "high") >>
    /\ ret = <<NeutralInsight>>

-----------------------------------------------------------------------------
(* lab_insights on HbA1c, fasting glucose and glucose rows.                  *)

\* no row (<<>>), or the rows of one test
GlycemicHba1c ==
    { <<>>, <<LabRowDict("HbA1c", None, "")>> }
    \cup { <<LabRowDict("HbA1c", Some(v), "normal")>> : v \in { Whole(5), Whole(6), Whole(7) } }

GlycemicFasting ==
    { <<>> }
    \cup { <<LabRowDict("Aclik Kan Sekeri", Some(v), "normal")>> :
            v \in { 0, Whole(110), Whole(300) } }

GlycemicGlucose ==
    { <<>>, <<LabRowDict("Glukoz", None, "")>> }
    \cup { <<LabRowDict("Glukoz", Some(v), "high")>> :
            v \in { 0, Tenths(59, 9), Whole(60), Tenths(99, 9), Whole(100), Tenths(125, 9),
                    Whole(126), Whole(200), Tenths(200, 1), Whole(300) } }

GlycemicArgs ==
    { [lab_rows |-> a \o f \o g, a1c |-> a, fasting |-> f, glucose |-> g, th |-> th] :
        a \in GlycemicHba1c, f \in GlycemicFasting, g \in GlycemicGlucose,
        th \in ThresholdRecords }

InitGlycemic ==
    /\ call = "lab_insights"
    /\ arg \in GlycemicArgs
    /\ ret = Pending
    /\ pc = "start"
    /\ meta = None
    /\ engine = None

NextGlycemic == LabInsights

SpecGlycemic == InitGlycemic /\ [][NextGlycemic]_vars

\* the value of the one row, None when there is no row or no value
ValueOf(rows) == IF Len(rows) = 0 THEN None ELSE rows[1].result_value

\* The glucose value: the fasting glucose when there is one (and it is not
\* zero), else the glucose.
GlucoseValue ==
    IF ~IsNone(ValueOf(arg.fasting)) /\ Val(ValueOf(arg.fasting)) # 0
    THEN ValueOf(arg.fasting) ELSE ValueOf(arg.glucose)

MentionsGlucose(i) == Len(i.title) >= 14 /\ SubSeq(i.title, 1, 14) = "Aclik glukozu "

GlycemicInsights(out) == SelectSeq(out, LAMBDA i : MentionsHbA1c(i) \/ MentionsGlucose(i))

GlucoseSeverity(g) ==
    IF g >= Whole(126) THEN "critical" ELSE IF g >= Whole(100) THEN "warn" ELSE "info"

\* C23 -- Glycemic rule: lab_insights emits at most one glycemic insight.
\* With an HbA1c value it is the HbA1c insight, whatever the glucose; with no
\* HbA1c value it is a glucose insight when the glucose value lies in 60..200
\* inclusive (critical at >= 126, warn at >= 100, info below), and there is
\* none when the glucose value is outside 60..200 or absent.
GlycemicAtMostOne ==
    (call = "lab_insights" /\ pc = "done") =>
        /\ Len(GlycemicInsights(ret)) <= 1
        /\ ~IsNone(ValueOf(arg.a1c)) =>
              /\ Len(GlycemicInsights(ret)) = 1
              /\ MentionsHbA1c(GlycemicInsights(ret)[1])
              /\ GlycemicInsights(ret)[1].value = ValueOf(arg.a1c)
        /\ (IsNone(ValueOf(arg.a1c)) /\ ~IsNone(GlucoseValue)
              /\ Whole(60) <= Val(GlucoseValue) /\ Val(GlucoseValue) <= Whole(200)) =>
              /\ Len(GlycemicInsights(ret)) = 1
              /\ MentionsGlucose(GlycemicInsights(ret)[1])
              /\ GlycemicInsights(ret)[1].value = GlucoseValue
              /\ GlycemicInsights(ret)[1].severity = GlucoseSeverity(Val(GlucoseValue))
        /\ (IsNone(ValueOf(arg.a1c))
              /\ (IsNone(GlucoseValue) \/ Val(GlucoseValue) < Whole(60)
                    \/ Val(GlucoseValue) > Whole(200))) =>
              GlycemicInsights(ret) = <<>>

\* HbA1c 5 and glucose 300 have given the HbA1c insight alone.
GlycemicAtMostOneWitness ==
    /\ call = "lab_insights" /\ pc = "done"
    /\ ValueOf(arg.a1c) = Some(Whole(5)) /\ ValueOf(arg.glucose) = Some(Whole(300))
    /\ arg.fasting = <<>>
    /\ Len(GlycemicInsights(ret)) = 1
    /\ MentionsHbA1c(GlycemicInsights(ret)[1])

-----------------------------------------------------------------------------
(* lab_insights on panels of rows that trigger many rules: the rules fill    *)
(* out, then out is sorted and returned.                                     *)

\* Two panels, each listed against the order of the rules.
StablePanels ==
    { << LabRowDict("Kreatinin", Some(Tenths(1, 5)), "high"),
         LabRowDict("CRP", Some(Whole(12)), ""),
         LabRowDict("Vitamin D", Some(Whole(25)), "borderline"),
         LabRowDict("TSH", Some(Whole(12)), "high"),
         LabRowDict("GGT", None, "high"),
         LabRowDict("ALT", Some(Whole(80)), "high"),
         LabRowDict("Trigliserid", Some(Whole(550)), "high"),
         LabRowDict("HDL Kolesterol", Some(Whole(35)), "low"),
         LabRowDict("LDL Kolesterol", Some(Whole(170)), "high"),
         LabRowDict("HbA1c", Some(Tenths(5, 2)), "normal") >>,
      << LabRowDict("eGFR", Some(Whole(50)), "low"),
         LabRowDict("B12", Some(Whole(150)), "low"),
         LabRowDict("Vitamin D", Some(Whole(15)), "low"),
         LabRowDict("Ferritin", Some(Whole(10)), "low"),
         LabRowDict("TSH", Some(Hundredths(0, 5)), "low"),
         LabRowDict("Total Kolesterol", Some(Whole(250)), "high"),
         LabRowDict("Trigliserid", Some(Whole(250)), "high"),
         LabRowDict("LDL Kolesterol", Some(Whole(195)), "high"),
         LabRowDict("Glukoz", Some(Whole(90)), "normal"),
         LabRowDict("Sodyum", Some(Whole(140)), "normal") >> }

\* the rows of panel p whose index is in S, in the order of the panel
RECURSIVE PickRows(_, _, _)
PickRows(p, S, i) ==
    IF i > Len(p) THEN <<>>
    ELSE (IF i \in S THEN <<p[i]>> ELSE <<>>) \o PickRows(p, S, i + 1)

StableArgs ==
    { [lab_rows |-> PickRows(p, S, 1), th |-> DEFAULT_CLINICAL_THRESHOLDS] :
        p \in StablePanels, S \in SUBSET (1..10) }

InitStable ==
    /\ call = "lab_insights"
    /\ arg \in StableArgs
    /\ ret = Pending
    /\ pc = "start"
    /\ meta = None
    /\ engine = None

\* by_key, the rules and the fallback: out as add() has filled it
LabInsightsAppend ==
    /\ call = "lab_insights"
    /\ pc = "start"
    /\ ret' = lab_fallback(lab_rules(by_key_of(arg.lab_rows), arg.th), arg.lab_rows)
    /\ pc' = "appended"
    /\ UNCHANGED <<call, arg, meta, engine>>

\* out.sort(key=...); return out
LabInsightsSort ==
    /\ call = "lab_insights"
    /\ pc = "appended"
    /\ ret' = returned(sort_by_severity(ret))
    /\ pc' = "done"
    /\ UNCHANGED <<call, arg, meta, engine>>

NextStable == LabInsightsAppend \/ LabInsightsSort

SpecStable == InitStable /\ [][NextStable]_vars

StartsWith(s, p) == Len(s) >= Len(p) /\ SubSeq(s, 1, Len(p)) = p

\* The place in the order of evaluation of the rule an insight comes from.
RuleRank(i) ==
    CASE StartsWith(i.title, "HbA1c") \/ StartsWith(i.title, "Aclik glukozu") -> 1
      [] StartsWith(i.title, "LDL") -> 2
      [] StartsWith(i.title, "HDL") -> 3
      [] StartsWith(i.title, "Trigliserid") -> 4
      [] StartsWith(i.title, "Total kolesterol") -> 5
      [] StartsWith(i.title, "ALT") -> 6
      [] StartsWith(i.title, "AST") -> 7
      [] StartsWith(i.title, "GGT") -> 8
      [] StartsWith(i.title, "TSH") -> 9
      [] StartsWith(i.title, "Ferritin") -> 10
      [] StartsWith(i.title, "Vitamin D") -> 11
      [] StartsWith(i.title, "B12") -> 12
      [] StartsWith(i.title, "CRP") -> 13
      [] StartsWith(i.title, "eGFR") -> 14
      [] StartsWith(i.title, "Kreatinin") -> 15
      [] OTHER -> 16

OfSeverity(out, s) == SelectSeq(out, LAMBDA i : i.severity = s)

\* C24 -- Complete, stable output of lab_insights: the returned list holds
\* exactly the insights the rules appended (for each severity the same
\* insights in the same order, nothing dropped), ordered by severity rank;
\* insights of equal severity stand in the order of evaluation of the rules
\* (glycemic, LDL, HDL, triglycerides, total cholesterol, ALT, AST, GGT, TSH,
\* ferritin, vitamin D, B12, CRP, eGFR, creatinine), whatever their titles.
CompleteStableOutput ==
    /\ []((call = "lab_insights" /\ pc = "done") =>
            /\ SeveritySorted(ret)
            /\ \A i \in 1..Len(ret) : \A j \in (i + 1)..Len(ret) :
                  ret[i].severity = ret[j].severity => RuleRank(ret[i]) < RuleRank(ret[j]))
    /\ [][(pc = "appended" /\ pc' = "done") =>
            /\ Len(ret') = Len(ret)
            /\ \A s \in {"critical", "warn", "info"} : OfSeverity(ret', s) = OfSeverity(ret, s)]_vars

\* Nine rules have fired on a panel listed against the rule order: the two
\* critical insights come first, TSH after triglycerides, and the warn
\* insights follow in rule order although ALT sorts before LDL by title.
CompleteStableOutputWitness ==
    /\ call = "lab_insights" /\ pc = "done"
    /\ Len(arg.lab_rows) = 10 /\ arg.lab_rows[1].test_name = "Kreatinin"
    /\ Len(ret) = 10
    /\ ret[1].title = "Trigliserid cok yuksek" /\ ret[2].title = "TSH yuksek"
    /\ ret[3].title = "LDL yuksek" /\ ret[4].title = "HDL dusuk" /\ ret[5].title = "ALT yuksek"
    /\ ret[9].severity = "info" /\ ret[10].severity = "info"

-----------------------------------------------------------------------------
(* norm_key on a name written with Turkish letters and on its ASCII          *)
(* spelling.                                                                 *)

\* The ASCII spelling: every Turkish letter by its ASCII letter of the same case.
AsciiSpelling(s) == MapStr(s, "{}$%&#~^;:?!", "iIsSgGuUoOcC")

TranslitArgs ==
    { [name |-> Some(p[1] \o v \o p[2]), other |-> Some(p[1] \o AsciiSpelling(v) \o p[2])] :
        <<v, p>> \in UNION { CaseVariants(b) \X NamePads : b \in ReportNames } }

InitTranslit ==
    /\ call = "norm_key"
    /\ arg \in TranslitArgs
    /\ ret = Pending
    /\ pc = "start"
    /\ meta = None
    /\ engine = None

SpecTranslit == InitTranslit /\ [][NextNorm]_vars

\* Only a-z, 0-9 and single interior spaces.
PlainKey(s) ==
    /\ \A i \in 1..Len(s) : IsAlnum(Ch(s, i)) \/ Ch(s, i) = " "
    /\ Len(s) > 0 => (Ch(s, 1) # " " /\ Ch(s, Len(s)) # " ")
    /\ \A i \in 1..(Len(s) - 1) : ~(Ch(s, i) = " " /\ Ch(s, i + 1) = " ")

-----------------------------------------------------------------------------
(* parse_enabiz_text on texts of one line of the extractor's inputs, alone   *)
(* or before a second result line.                                           *)

ParseRowsArgs ==
    { [lines |-> <<Val(a.line)>> \o more, text |-> Some(JoinWith(<<Val(a.line)>> \o more, "\n"))] :
        a \in { x \in ExtractArgs : ~IsNone(x.line) },
        more \in { <<>>, <<"CRP 3 mg/L <5">> } }

InitParseRows ==
    /\ call = "parse_enabiz_text"
    /\ arg \in ParseRowsArgs
    /\ ret = Pending
    /\ pc = "start"
    /\ meta = None
    /\ engine = None

SpecParseRows == InitParseRows /\ [][NextParse]_vars

BoundsOfModePresent(ref) ==
    CASE ref.mode = "range" -> ~IsNone(ref.low) /\ ~IsNone(ref.high)
      [] ref.mode = "lt"    -> ~IsNone(ref.high)
      [] ref.mode = "gt"    -> ~IsNone(ref.low)
      [] OTHER              -> FALSE

\* C26 -- Every LabRow returned by parse_enabiz_text has a numeric
\* result_value, a ref of mode range, lt or gt with the bounds of the mode
\* present (never unknown), ref = parse_ref(ref_text) and status =
\* classify_value(result_value, ref) under the default ratio; so its status
\* is low, high, borderline or normal and never unknown.
ParsedRowsAreClassified ==
    (call = "parse_enabiz_text" /\ pc = "done") =>
        \A i \in 1..Len(ret) :
            /\ ~IsNone(ret[i].result_value)
            /\ BoundsOfModePresent(ret[i].ref)
            /\ ret[i].ref = parse_ref(Some(ret[i].ref_text))
            /\ ret[i].status = classify_value(ret[i].result_value, ret[i].ref, DefaultRatio)
            /\ ret[i].status \in {"low", "high", "borderline", "normal"}

\* A line with a '<' fragment before a range has given a row whose reference
\* is the range parse_ref finds in the fragment.
ParsedRowsAreClassifiedWitness ==
    /\ call = "parse_enabiz_text" /\ pc = "done"
    /\ arg.lines = <<"CRP 3 mg/L <5 0 - 5">>
    /\ Len(ret) = 1
    /\ ret[1].ref_text = "<5 0 - 5" /\ ret[1].ref.mode = "range"
    /\ ret[1].result_value = Some(Whole(3)) /\ ret[1].status = "normal"

-----------------------------------------------------------------------------
(* Engines constructed at different times.  engine is the list of the        *)
(* engines constructed so far; thresholds are saved between and after the    *)
(* constructions, and every engine is called.                                *)

MaxEngines == 2

CaptureDicts ==
    { <<>>,
      ("hba1c_critical" :> Num(Whole(7))) @@ ("hba1c_warn" :> Num(Whole(6))),
      ("ldl_warn" :> Num(Whole(150))) @@ ("waist_warn" :> Num(Whole(100))) }

CaptureRows ==
    { <<LabRowDict("HbA1c", Some(Tenths(6, 6)), "high")>>,
      <<LabRowDict("LDL Kolesterol", Some(Whole(155)), "high")>> }

CaptureTables ==
    { TableOf(<< <<0, <<None, Some(Whole(70)), None>> >>,
                 <<14, <<None, Some(Whole(70)), Some(Whole(100))>> >> >>) }

InitCapture ==
    /\ call = "none"
    /\ arg = None
    /\ ret = Pending
    /\ pc = "start"
    /\ meta = None
    /\ engine = <<>>

\* A bug the engine could have: the thresholds are read from the settings at
\* every call.
self_th_reread(self, m) == get_clinical_thresholds(m)

\* self.th, as a rule reads it; m is the stored settings at the time of the call
self_th(self, m) == self.th

CaptureSave ==
    /\ \E t \in CaptureDicts :
        /\ meta' = save_clinical_thresholds(t)
        /\ arg' = Some(t)
    /\ call' = "save_clinical_thresholds"
    /\ ret' = None
    /\ pc' = "done"
    /\ UNCHANGED engine

CaptureConstruct ==
    /\ Len(engine) < MaxEngines
    /\ engine' = Append(engine, ClinicalIntelligence(meta))
    /\ call' = "ClinicalIntelligence"
    /\ arg' = None
    /\ ret' = None
    /\ pc' = "done"
    /\ UNCHANGED meta

CaptureLabInsights ==
    /\ \E e \in DOMAIN engine, rows \in CaptureRows :
        /\ arg' = [self |-> e, lab_rows |-> rows]
        /\ ret' = lab_insights(rows, self_th(engine[e], meta))
    /\ call' = "lab_insights"
    /\ pc' = "done"
    /\ UNCHANGED <<meta, engine>>

CaptureMeasurementAlerts ==
    /\ \E e \in DOMAIN engine, t \in CaptureTables :
        /\ arg' = [self |-> e, table |-> t]
        /\ ret' = measurement_alerts(t, self_th(engine[e], meta))
    /\ call' = "measurement_alerts"
    /\ pc' = "done"
    /\ UNCHANGED <<meta, engine>>

NextCapture ==
    \/ CaptureSave
    \/ CaptureConstruct
    \/ CaptureLabInsights
    \/ CaptureMeasurementAlerts

SpecCapture == InitCapture /\ [][NextCapture]_vars

\* C27 -- Thresholds are captured once per engine: an engine reads the
\* thresholds when it is constructed (its record is the one stored at that
\* time) and uses that record for every later lab_insights and
\* measurement_alerts call; a later save changes no engine already
\* constructed, only the record of engines constructed after it.
ThresholdsCapturedOnce ==
    /\ []((call = "lab_insights" /\ pc = "done") =>
            ret = lab_insights(arg.lab_rows, engine[arg.self].th))
    /\ []((call = "measurement_alerts" /\ pc = "done") =>
            ret = measurement_alerts(arg.table, engine[arg.self].th))
    /\ [][/\ Len(engine') >= Len(engine)
          /\ \A e \in DOMAIN engine : engine'[e] = engine[e]
          /\ \A e \in DOMAIN engine' \ DOMAIN engine :
                engine'[e].th = get_clinical_thresholds(meta)]_vars

\* Two engines constructed before and after a save of hba1c_critical = 7:
\* called after the save, the first still reports HbA1c 6.6 as critical,
\* which under the record of the second is a warning.
ThresholdsCapturedOnceWitness ==
    /\ call = "lab_insights" /\ pc = "done"
    /\ Len(engine) = 2 /\ arg.self = 1
    /\ engine[1].th = DEFAULT_CLINICAL_THRESHOLDS
    /\ engine[2].th.hba1c_critical = Num(Whole(7))
    /\ get_clinical_thresholds(meta) = engine[2].th
    /\ arg.lab_rows = <<LabRowDict("HbA1c", Some(Tenths(6, 6)), "high")>>
    /\ ret[1].severity = "critical"
    /\ lab_insights(arg.lab_rows, engine[2].th)[1].severity = "warn"

-----------------------------------------------------------------------------
(* one_glance_summary on the measurements of a client: latest_for_client,    *)
(* then measurement_alerts, which picks its own latest measurement.          *)

\* latest = ms_sorted[-1], on the weight-bearing measurements of the client;
\* None when measurement_alerts returns before it (fewer than 2 of them)
alerts_latest(table) ==
    IF Len(weight_bearing(list_for_client(table))) < 2 THEN None
    ELSE Some(sorted_by_date(weight_bearing(list_for_client(table)))
                [Len(weight_bearing(list_for_client(table)))])

\* ClinicalIntelligence.one_glance_summary for a client with no lab import
one_glance_summary(table, th) ==
    [ latest_measurement |-> latest_for_client(table),
      latest_labs_import |-> None,
      lab_insights       |-> <<>>,
      measurement_alerts |-> measurement_alerts(table, th) ]

\* histories in which every measurement has a positive weight
PositiveSamples == { s \in MeasSamples : ~IsNone(s[2]) /\ Val(s[2]) > 0 }

LatestTables ==
    { TableOf(h) : h \in UNION { [1..n -> MeasDays \X PositiveSamples] : n \in 0..MaxMeas } }

InitLatest ==
    /\ call = "one_glance_summary"
    /\ arg \in { [table |-> t, th |-> DEFAULT_CLINICAL_THRESHOLDS] : t \in LatestTables }
    /\ ret = Pending
    /\ pc = "start"
    /\ meta = None
    /\ engine = None

\* latest_meas = self.meas.latest_for_client(client_id)
SummaryLatestForClient ==
    /\ call = "one_glance_summary" /\ pc = "start"
    /\ ret' = [latest_measurement |-> latest_for_client(arg.table)]
    /\ pc' = "latest_for_client"
    /\ UNCHANGED <<call, arg, meta, engine>>

\* self.measurement_alerts(client_id), up to latest = ms_sorted[-1]
SummaryAlertsLatest ==
    /\ call = "one_glance_summary" /\ pc = "latest_for_client"
    /\ ret' = [latest_measurement |-> ret.latest_measurement,
               latest |-> alerts_latest(arg.table)]
    /\ pc' = "measurement_alerts"
    /\ UNCHANGED <<call, arg, meta, engine>>

\* the rules of measurement_alerts, and return {...}
SummaryReturn ==
    /\ call = "one_glance_summary" /\ pc = "measurement_alerts"
    /\ ret' = one_glance_summary(arg.table, arg.th)
    /\ pc' = "done"
    /\ UNCHANGED <<call, arg, meta, engine>>

NextLatest == SummaryLatestForClient \/ SummaryAlertsLatest \/ SummaryReturn

SpecLatest == InitLatest /\ [][NextLatest]_vars

\* C28 -- Agreement on the latest measurement: for a history in which every
\* measurement has a positive weight, the measurement that measurement_alerts
\* takes as latest is the record latest_for_client returns and
\* one_glance_summary reports as latest_measurement, also when several
\* measurements share the most recent date.
LatestAgree ==
    /\ (call = "one_glance_summary" /\ pc = "measurement_alerts" /\ ~IsNone(ret.latest))
          => ret.latest = ret.latest_measurement
    /\ (call = "one_glance_summary" /\ pc = "done" /\ ~IsNone(alerts_latest(arg.table)))
          => ret.latest_measurement = alerts_latest(arg.table)

-----------------------------------------------------------------------------
(* measurement_alerts on histories with at least two weight-bearing          *)
(* measurements: the weight change, the day difference and the weekly rate   *)
(* are computed, then the rules run.                                         *)

RateDaysArgs ==
    { a \in WeightRateArgs : Cardinality(WeightBearing(a.table)) >= 2 }

InitRateDays ==
    /\ call = "measurement_alerts"
    /\ arg \in RateDaysArgs
    /\ ret = Pending
    /\ pc = "start"
    /\ meta = None
    /\ engine = None

\* latest, prev, dw, days and rate_week of the weight rule
weight_change(ms_sorted) ==
    [ latest |-> ms_sorted[Len(ms_sorted)],
      prev   |-> ms_sorted[Len(ms_sorted) - 1],
      dw     |-> Val(ms_sorted[Len(ms_sorted)].weight_kg)
                    - Val(ms_sorted[Len(ms_sorted) - 1].weight_kg),
      days   |-> days_between(ms_sorted[Len(ms_sorted)], ms_sorted[Len(ms_sorted) - 1]),
      rate_week |-> rate_week(Val(ms_sorted[Len(ms_sorted)].weight_kg)
                                - Val(ms_sorted[Len(ms_sorted) - 1].weight_kg),
                              days_between(ms_sorted[Len(ms_sorted)],
                                           ms_sorted[Len(ms_sorted) - 1])) ]

\* measurement_alerts up to rate_week = dw / days * 7.0
MeasurementAlertsRate ==
    /\ call = "measurement_alerts" /\ pc = "start"
    /\ ret' = weight_change(sorted_by_date(weight_bearing(list_for_client(arg.table))))
    /\ pc' = "rate_week"
    /\ UNCHANGED <<call, arg, meta, engine>>

\* the rules, the fallback, the sort and return out
MeasurementAlertsRules ==
    /\ call = "measurement_alerts" /\ pc = "rate_week"
    /\ ret' = measurement_alerts(arg.table, arg.th)
    /\ pc' = "done"
    /\ UNCHANGED <<call, arg, meta, engine>>

NextRateDays == MeasurementAlertsRate \/ MeasurementAlertsRules

SpecRateDays == InitRateDays /\ [][NextRateDays]_vars

\* the two most recent weight-bearing measurements carry the same date
SameDateTop(t) ==
    \E l \in MostRecent(t, WeightBearing(t)) :
        \E p \in MostRecent(t, WeightBearing(t) \ {l}) : t[l].measured_at = t[p].measured_at

\* C29 -- No division by zero in the weight-rate rule: the day difference
\* the rule divides by is always >= 1; when the two most recent
\* weight-bearing measurements carry the same date it is 1, not 0, and the
\* weekly rate is 7 times the weight difference.
DayDifferenceAtLeastOne ==
    /\ (call = "measurement_alerts" /\ pc = "rate_week") =>
          /\ ret.days >= 1
          /\ ret.rate_week.d >= 1
          /\ SameDateTop(arg.table) =>
                /\ ret.latest.measured_at = ret.prev.measured_at
                /\ ret.days = 1
                /\ ret.rate_week.n = 7 * ret.dw * ret.rate_week.d
    /\ (call = "measurement_alerts" /\ pc = "done" /\ SameDateTop(arg.table)) =>
          \E l \in MostRecent(arg.table, WeightBearing(arg.table)) :
              \E p \in MostRecent(arg.table, WeightBearing(arg.table) \ {l}) :
                  WeightRateOutcome(ret,
                      Val(arg.table[l].weight_kg) - Val(arg.table[p].weight_kg), 1, arg.th)

\* 70 kg and 71 kg on the same day: a day difference of 1, a rate of 7 kg a
\* week.
DayDifferenceAtLeastOneWitness ==
    /\ call = "measurement_alerts" /\ pc = "rate_week"
    /\ Len(arg.table) = 2
    /\ arg.table[1].measured_at = arg.table[2].measured_at
    /\ ret.days = 1 /\ Abs(ret.dw) = Whole(1)
    /\ Abs(ret.rate_week.n) = Whole(7) /\ ret.rate_week.d = 1

-----------------------------------------------------------------------------
(* _norm_key of the lab screen, and the two normalizers on the same names.   *)

\* synonyms of _norm_key, as (key, value) pairs
ui_synonyms ==
    << <<"c reaktif protein", "crp">>,
       <<"c reaktif protein crp", "crp">>,
       <<"crp turbidimetrik", "crp">>,
       <<"glukoz aclik kan sekeri", "glukoz aclik">>,
       <<"aclik kan sekeri", "glukoz aclik">>,
       <<"homa ir", "homa ir">>,
       <<"vitamin d", "25 oh vitamin d">>,
       <<"25 oh vitamin d", "25 oh vitamin d">>,
       <<"tsh", "tsh">> >>

\* synonyms.get(s, s)
ui_synonyms_get(s) ==
    IF \E i \in 1..Len(ui_synonyms) : ui_synonyms[i][1] = s
    THEN ui_synonyms[CHOOSE i \in 1..Len(ui_synonyms) : ui_synonyms[i][1] = s][2]
    ELSE s

\* The steps before the lookup are those of norm_key, character for character.
_norm_key(name) == ui_synonyms_get(pre_synonym_key(name))

NormPairs ==
    { <<"HbA1c", "Hb A1c">>, <<"B12", "Vitamin B12">>, <<"Trigliserid", "Trigliserit">>,
      <<"LDL Kolesterol", "LDL">>, <<"Hb", "Hemoglobin">>, <<"CRP", "C-Reaktif Protein">>,
      <<"Vitamin D", "25-OH Vitamin D">>, <<"HOMA-IR", "homa ir">>, <<"Glukoz", "HbA1c">>,
      <<"Sodyum", "Potasyum">> }

AgreeArgs ==
    NormArgs \cup { [name |-> Some(p[1]), other |-> Some(p[2])] : p \in NormPairs }

InitAgree ==
    /\ call = "_norm_key"
    /\ arg \in AgreeArgs
    /\ ret = Pending
    /\ pc = "start"
    /\ meta = None
    /\ engine = None

\* both normalizers on the name and on the other name
NormKeyBoth ==
    /\ call = "_norm_key"
    /\ pc = "start"
    /\ ret' = [key |-> norm_key(arg.name), other_key |-> norm_key(arg.other),
               ui_key |-> _norm_key(arg.name), ui_other_key |-> _norm_key(arg.other)]
    /\ pc' = "done"
    /\ UNCHANGED <<call, arg, meta, engine>>

NextAgree == NormKeyBoth

SpecAgree == InitAgree /\ [][NextAgree]_vars

\* C30 -- The two test-name normalizers agree: for every test name the key of
\* the lab screen's _norm_key equals the key of the engine's norm_key, so two
\* names are the same test for the comparison view exactly when they are the
\* same test for the insight engine.
NormalizersAgree ==
    (call = "_norm_key" /\ pc = "done")
        => /\ ret.ui_key = ret.key
           /\ ret.ui_other_key = ret.other_key
           /\ (ret.ui_key = ret.ui_other_key) <=> (ret.key = ret.other_key)

====
